---- MODULE Spec2Model ----
(***************************************************************************)
(* Model of the alpha-mask blur engine SkBlurMask (src/unnamed/part_001,   *)
(* lines 58-1571): boxBlur, boxBlurInterp, build_sum_buffer, apply_kernel, *)
(* apply_kernel_interp, merge_src_with_blur, clamp_with_orig and the entry *)
(* points Blur, BlurSeparable, BlurRect and BlurGroundTruth.               *)
(*                                                                         *)
(* Conventions.                                                            *)
(*  - A byte buffer is a sequence; the byte at C offset k is buf[k+1].     *)
(*    A byte that was allocated but never written holds Uninit.            *)
(*  - An SkScalar is an exact rational <<n, d>> with d > 0.  The inputs    *)
(*    are chosen away from the rounding boundaries of float arithmetic, so *)
(*    ceil and round give what the float computation gives.                *)
(*  - uint32_t products that can exceed 2^31 are computed in two 12-bit    *)
(*    halves; the byte stored after ">> 24" is the true quotient modulo    *)
(*    256, which is what the wrapped 32-bit value shifted by 24 holds.     *)
(***************************************************************************)
EXTENDS Integers, Sequences, FiniteSets, TLC

VARIABLES pc, call, args, ret, dst, margin, heap, pixels, calls, fault

vars == <<pc, call, args, ret, dst, margin, heap, pixels, calls, fault>>

-----------------------------------------------------------------------------
(* Bounds of the model *)

\* scalars offered as radius and rectangle coordinates are multiples of 1/ScalarDen
ScalarDen == 2
\* largest radius offered to the entry points
MaxRadius == 4

-----------------------------------------------------------------------------
(* Scalars, integers *)

Uninit == -1

SkMin32(a, b) == IF a < b THEN a ELSE b
SkMax32(a, b) == IF a > b THEN a ELSE b
SkClampPos(a) == IF a < 0 THEN 0 ELSE a
SkClampMax(a, mx) == IF a < 0 THEN 0 ELSE IF a > mx THEN mx ELSE a
SkFastMin32(a, b) == IF a < b THEN a ELSE b

\* C integer division (truncation toward zero), b # 0
CDiv(a, b) ==
    LET aa == IF a < 0 THEN -a ELSE a
        ab == IF b < 0 THEN -b ELSE b
    IN  IF (a < 0) = (b < 0) THEN aa \div ab ELSE -(aa \div ab)

SkIntToScalar(i) == <<i, 1>>
SkScalarMul(a, b) == <<a[1] * b[1], a[2] * b[2]>>
SkScalarSub(a, b) == <<a[1] * b[2] - b[1] * a[2], a[2] * b[2]>>
SkScalarAdd(a, b) == <<a[1] * b[2] + b[1] * a[2], a[2] * b[2]>>
SkScalarLT(a, b) == a[1] * b[2] < b[1] * a[2]
SkScalarFloor(a) == a[1] \div a[2]
SkScalarCeil(a) == -((-a[1]) \div a[2])
SkScalarRound(a) == (2 * a[1] + a[2]) \div (2 * a[2])

\* #define kBlurRadiusFudgeFactor SkFloatToScalar( .57735f )
kBlurRadiusFudgeFactor == <<11547, 20000>>

\* (a * b + c * d + half) >> 24 stored into a uint8_t, all operands uint32_t
MulAddShr24(a, b, c, d, half) ==
    LET hi == a * (b \div 4096) + c * (d \div 4096)
        lo == a * (b % 4096) + c * (d % 4096) + half
    IN  ((hi + (lo \div 4096)) \div 4096) % 256

\* the uint32_t value of a * b + c * d + half is not the mathematical one: it
\* does not fit 32 bits, or an operand is a difference that wrapped below 0
MulAddWraps(a, b, c, d, half) ==
    LET hi == a * (b \div 4096) + c * (d \div 4096)
        lo == a * (b % 4096) + c * (d % 4096) + half
    IN  a < 0 \/ b < 0 \/ c < 0 \/ d < 0 \/ hi + (lo \div 4096) >= 1048576

\* one reading of buf at C offset off; a read outside the buffer is a fault
InBuf(buf, off) == off >= 0 /\ off < Len(buf)
Rd(buf, off) == IF InBuf(buf, off) THEN buf[off + 1] ELSE Uninit
BadRd(buf, off) == ~InBuf(buf, off) \/ buf[off + 1] = Uninit

\* a fresh allocation of n bytes
NewBuf(n) == [k \in 1..n |-> Uninit]

\* UnrolledIters without the loop that handles the remainder
UnrolledIters_NoRemainder(start, limit) ==
    16 * (IF limit - 16 > start THEN ((limit - 16 - start - 1) \div 16) + 1 ELSE 0)

\* iterations of "for (; x < limit - 16; x += 16) {16 bodies}" followed by
\* "for (; x < limit; ++x) {body}", entered with x = start
UnrolledIters(start, limit) ==
    LET u == IF limit - 16 > start THEN ((limit - 16 - start - 1) \div 16) + 1 ELSE 0
        x == start + 16 * u
    IN  16 * u + (IF limit > x THEN limit - x ELSE 0)

Max(S) == CHOOSE y \in S : \A z \in S : z <= y

RECURSIVE Zeros(_)
Zeros(n) == IF n <= 0 THEN <<>> ELSE <<0>> \o Zeros(n - 1)

\* The stores "*dptr = v; dptr += xs" of all rows, row y starting at offset
\* base + y * ys, applied to dstbuf in program order (a later store to the same
\* byte wins).  rows[y+1] is the sequence of values row y stores.
Scatter(dstbuf, base, rows, xs, ys) ==
    SubSeq([k \in 1..Len(dstbuf) |->
              LET c == {y \in 1..Len(rows) :
                          LET d == (k - 1) - base - (y - 1) * ys
                          IN  d >= 0 /\ d % xs = 0 /\ (d \div xs) < Len(rows[y])}
              IN  IF c = {} THEN dstbuf[k]
                  ELSE LET y == Max(c)
                       IN  rows[y][(((k - 1) - base - (y - 1) * ys) \div xs) + 1]],
           1, Len(dstbuf))

\* some store of Scatter lands outside dstbuf
ScatterOob(dstbuf, base, rows, xs, ys) ==
    \E y \in 1..Len(rows) :
        Len(rows[y]) > 0
        /\ (base + (y - 1) * ys < 0
            \/ base + (y - 1) * ys + (Len(rows[y]) - 1) * xs >= Len(dstbuf))

-----------------------------------------------------------------------------
(* boxBlur, part_001 lines 125-276 *)

\* BoxIter as built with SK_DISABLE_BLUR_ROUNDING, half == 0
BoxIter_NoRounding(src, st, scale, half, kind) ==
    LET rd == kind \in {"LEFT_BORDER", "CENTER"}
        sb == kind \in {"CENTER", "RIGHT_BORDER"}
        s1 == IF rd THEN st.sum + Rd(src, st.right) ELSE st.sum
        s2 == IF sb THEN s1 - Rd(src, st.left) ELSE s1
    IN  [sum   |-> s2,
         right |-> IF rd THEN st.right + 1 ELSE st.right,
         left  |-> IF sb THEN st.left + 1 ELSE st.left,
         out   |-> Append(st.out, MulAddShr24(s1, scale, 0, 0, 0)),
         wrap  |-> st.wrap \/ MulAddWraps(s1, scale, 0, 0, 0),
         bad   |-> st.bad \/ (rd /\ BadRd(src, st.right)) \/ (sb /\ BadRd(src, st.left))]

\* BoxIter that stores the pixel after "sum -= *left++" instead of before it
BoxIter_StoreAfterSubtract(src, st, scale, half, kind) ==
    LET rd == kind \in {"LEFT_BORDER", "CENTER"}
        sb == kind \in {"CENTER", "RIGHT_BORDER"}
        s1 == IF rd THEN st.sum + Rd(src, st.right) ELSE st.sum
        s2 == IF sb THEN s1 - Rd(src, st.left) ELSE s1
    IN  [sum   |-> s2,
         right |-> IF rd THEN st.right + 1 ELSE st.right,
         left  |-> IF sb THEN st.left + 1 ELSE st.left,
         out   |-> Append(st.out, MulAddShr24(s2, scale, 0, 0, half)),
         wrap  |-> st.wrap \/ MulAddWraps(s2, scale, 0, 0, half),
         bad   |-> st.bad \/ (rd /\ BadRd(src, st.right)) \/ (sb /\ BadRd(src, st.left))]

\* BoxIter whose RIGHT_BORDER_ITER does not subtract the pixel leaving the window
BoxIter_NoSubtract(src, st, scale, half, kind) ==
    LET rd == kind \in {"LEFT_BORDER", "CENTER"}
        sb == kind \in {"CENTER"}
        s1 == IF rd THEN st.sum + Rd(src, st.right) ELSE st.sum
        s2 == IF sb THEN s1 - Rd(src, st.left) ELSE s1
    IN  [sum   |-> s2,
         right |-> IF rd THEN st.right + 1 ELSE st.right,
         left  |-> IF sb THEN st.left + 1 ELSE st.left,
         out   |-> Append(st.out, MulAddShr24(s1, scale, 0, 0, half)),
         wrap  |-> st.wrap \/ MulAddWraps(s1, scale, 0, 0, half),
         bad   |-> st.bad \/ (rd /\ BadRd(src, st.right)) \/ (sb /\ BadRd(src, st.left))]

\* one expansion of LEFT_BORDER_ITER, TRIVIAL_ITER, CENTER_ITER or RIGHT_BORDER_ITER
BoxIter(src, st, scale, half, kind) ==
    LET rd == kind \in {"LEFT_BORDER", "CENTER"}
        sb == kind \in {"CENTER", "RIGHT_BORDER"}
        s1 == IF rd THEN st.sum + Rd(src, st.right) ELSE st.sum
        s2 == IF sb THEN s1 - Rd(src, st.left) ELSE s1
    IN  [sum   |-> s2,
         right |-> IF rd THEN st.right + 1 ELSE st.right,
         left  |-> IF sb THEN st.left + 1 ELSE st.left,
         out   |-> Append(st.out, MulAddShr24(s1, scale, 0, 0, half)),
         wrap  |-> st.wrap \/ MulAddWraps(s1, scale, 0, 0, half),
         bad   |-> st.bad \/ (rd /\ BadRd(src, st.right)) \/ (sb /\ BadRd(src, st.left))]

RECURSIVE BoxIters(_, _, _, _, _, _)
BoxIters(src, st, n, scale, half, kind) ==
    IF n <= 0 THEN st
    ELSE BoxIters(src, BoxIter(src, st, scale, half, kind), n - 1, scale, half, kind)

\* boxBlurRow without the zeros stored after RIGHT_BORDER_ITER when
\* leftRadius > rightRadius
boxBlurRow_NoTrailingZeros(src, rowOff, leftRadius, rightRadius, width) ==
    LET diameter == leftRadius + rightRadius
        kernelSize == diameter + 1
        border == SkMin32(width, diameter)
        scale == 16777216 \div kernelSize
        half == 8388608
        st0 == [sum |-> 0, right |-> rowOff, left |-> rowOff,
                out |-> Zeros(rightRadius - leftRadius), wrap |-> FALSE, bad |-> FALSE]
        st1 == BoxIters(src, st0, UnrolledIters(0, border), scale, half, "LEFT_BORDER")
        st2 == BoxIters(src, st1, UnrolledIters(width, diameter), scale, half, "TRIVIAL")
        st3 == BoxIters(src, st2, UnrolledIters(diameter, width), scale, half, "CENTER")
    IN  BoxIters(src, st3, UnrolledIters(0, border), scale, half, "RIGHT_BORDER")

\* boxBlurRow with half = 1 << 24 instead of 1 << 23
boxBlurRow_HalfIsOne(src, rowOff, leftRadius, rightRadius, width) ==
    LET diameter == leftRadius + rightRadius
        kernelSize == diameter + 1
        border == SkMin32(width, diameter)
        scale == 16777216 \div kernelSize
        half == 16777216
        st0 == [sum |-> 0, right |-> rowOff, left |-> rowOff,
                out |-> Zeros(rightRadius - leftRadius), wrap |-> FALSE, bad |-> FALSE]
        st1 == BoxIters(src, st0, UnrolledIters(0, border), scale, half, "LEFT_BORDER")
        st2 == BoxIters(src, st1, UnrolledIters(width, diameter), scale, half, "TRIVIAL")
        st3 == BoxIters(src, st2, UnrolledIters(diameter, width), scale, half, "CENTER")
        st4 == BoxIters(src, st3, UnrolledIters(0, border), scale, half, "RIGHT_BORDER")
    IN  [st4 EXCEPT !.out = @ \o Zeros(leftRadius - rightRadius)]

\* the body of "for (int y = 0; y < height; ++y)" for the row starting at src + rowOff
boxBlurRow(src, rowOff, leftRadius, rightRadius, width) ==
    LET diameter == leftRadius + rightRadius
        kernelSize == diameter + 1
        border == SkMin32(width, diameter)
        scale == 16777216 \div kernelSize
        half == 8388608
        st0 == [sum |-> 0, right |-> rowOff, left |-> rowOff,
                out |-> Zeros(rightRadius - leftRadius), wrap |-> FALSE, bad |-> FALSE]
        st1 == BoxIters(src, st0, UnrolledIters(0, border), scale, half, "LEFT_BORDER")
        st2 == BoxIters(src, st1, UnrolledIters(width, diameter), scale, half, "TRIVIAL")
        st3 == BoxIters(src, st2, UnrolledIters(diameter, width), scale, half, "CENTER")
        st4 == BoxIters(src, st3, UnrolledIters(0, border), scale, half, "RIGHT_BORDER")
    IN  [st4 EXCEPT !.out = @ \o Zeros(leftRadius - rightRadius)]

RECURSIVE boxBlurRows(_, _, _, _, _, _, _)
boxBlurRows(src, src_y_stride, leftRadius, rightRadius, width, height, y) ==
    IF y >= height THEN <<>>
    ELSE <<boxBlurRow(src, y * src_y_stride, leftRadius, rightRadius, width)>>
         \o boxBlurRows(src, src_y_stride, leftRadius, rightRadius, width, height, y + 1)

\* result: the destination after the call, the returned new_width, whether
\* SkASSERT(sum == 0) held in every row, whether "sum * scale + half" wrapped
\* for some pixel, whether a load or store left its buffer or a load read a
\* byte never written
boxBlur(src, src_y_stride, dstbuf, leftRadius, rightRadius, width, height, transpose) ==
    LET new_width == width + SkMax32(leftRadius, rightRadius) * 2
        dst_x_stride == IF transpose THEN height ELSE 1
        dst_y_stride == IF transpose THEN 1 ELSE new_width
        rs == boxBlurRows(src, src_y_stride, leftRadius, rightRadius, width, height, 0)
        outs == [y \in 1..Len(rs) |-> rs[y].out]
    IN  [buf     |-> Scatter(dstbuf, 0, outs, dst_x_stride, dst_y_stride),
         width   |-> new_width,
         sumZero |-> \A y \in 1..Len(rs) : rs[y].sum = 0,
         wrap    |-> \E y \in 1..Len(rs) : rs[y].wrap,
         bad     |-> (\E y \in 1..Len(rs) : rs[y].bad)
                     \/ ScatterOob(dstbuf, 0, outs, dst_x_stride, dst_y_stride)]

-----------------------------------------------------------------------------
(* boxBlurInterp, part_001 lines 331-461 *)

\* InterpIter whose RIGHT_BORDER_ITER leaves out "outer_sum = inner_sum"
InterpIter_OuterKept(src, st, outer_scale, inner_scale, half, kind) ==
    LET inner == CASE kind = "LEFT_BORDER" -> st.outer_sum
                   [] kind = "TRIVIAL" -> st.inner_sum
                   [] OTHER -> st.outer_sum - Rd(src, st.left)
        outer == IF kind \in {"LEFT_BORDER", "CENTER"}
                 THEN st.outer_sum + Rd(src, st.right) ELSE st.outer_sum
        rd == kind \in {"LEFT_BORDER", "CENTER"}
        sb == kind \in {"CENTER", "RIGHT_BORDER"}
    IN  [outer_sum |-> CASE kind = "CENTER" -> outer - Rd(src, st.left)
                         [] OTHER -> outer,
         inner_sum |-> inner,
         right |-> IF rd THEN st.right + 1 ELSE st.right,
         left  |-> IF sb THEN st.left + 1 ELSE st.left,
         out   |-> Append(st.out, MulAddShr24(outer, outer_scale, inner, inner_scale, half)),
         wrap  |-> st.wrap \/ MulAddWraps(outer, outer_scale, inner, inner_scale, half),
         bad   |-> st.bad \/ (rd /\ BadRd(src, st.right)) \/ (sb /\ BadRd(src, st.left))]

\* one expansion of LEFT_BORDER_ITER, the loop body of lines 388-391,
\* CENTER_ITER or RIGHT_BORDER_ITER of boxBlurInterp
InterpIter(src, st, outer_scale, inner_scale, half, kind) ==
    LET inner == CASE kind = "LEFT_BORDER" -> st.outer_sum
                   [] kind = "TRIVIAL" -> st.inner_sum
                   [] OTHER -> st.outer_sum - Rd(src, st.left)
        outer == IF kind \in {"LEFT_BORDER", "CENTER"}
                 THEN st.outer_sum + Rd(src, st.right) ELSE st.outer_sum
        rd == kind \in {"LEFT_BORDER", "CENTER"}
        sb == kind \in {"CENTER", "RIGHT_BORDER"}
    IN  [outer_sum |-> CASE kind = "CENTER" -> outer - Rd(src, st.left)
                         [] kind = "RIGHT_BORDER" -> inner
                         [] OTHER -> outer,
         inner_sum |-> inner,
         right |-> IF rd THEN st.right + 1 ELSE st.right,
         left  |-> IF sb THEN st.left + 1 ELSE st.left,
         out   |-> Append(st.out, MulAddShr24(outer, outer_scale, inner, inner_scale, half)),
         wrap  |-> st.wrap \/ MulAddWraps(outer, outer_scale, inner, inner_scale, half),
         bad   |-> st.bad \/ (rd /\ BadRd(src, st.right)) \/ (sb /\ BadRd(src, st.left))]

RECURSIVE InterpIters(_, _, _, _, _, _, _)
InterpIters(src, st, n, outer_scale, inner_scale, half, kind) ==
    IF n <= 0 THEN st
    ELSE InterpIters(src, InterpIter(src, st, outer_scale, inner_scale, half, kind),
                     n - 1, outer_scale, inner_scale, half, kind)

\* InterpOuterWeight without "outer_weight += outer_weight >> 7"
InterpOuterWeight_NotRoundedUp(outer_weight) == outer_weight % 256

\* outer_weight += outer_weight >> 7 on the uint8_t parameter
InterpOuterWeight(outer_weight) == (outer_weight + (outer_weight \div 128)) % 256

\* inner_weight += inner_weight >> 7 on an int
InterpInnerWeight(outer_weight) == (255 - outer_weight) + ((255 - outer_weight) \div 128)

boxBlurInterpRow(src, rowOff, radius, width, outer_weight) ==
    LET diameter == radius * 2
        kernelSize == diameter + 1
        border == SkMin32(width, diameter)
        outer_scale == CDiv(InterpOuterWeight(outer_weight) * 65536, kernelSize)
        inner_scale == CDiv(InterpInnerWeight(outer_weight) * 65536, kernelSize - 2)
        half == 8388608
        st0 == [outer_sum |-> 0, inner_sum |-> 0, right |-> rowOff, left |-> rowOff,
                out |-> <<>>, wrap |-> FALSE, bad |-> FALSE]
        st1 == InterpIters(src, st0, UnrolledIters(0, border),
                           outer_scale, inner_scale, half, "LEFT_BORDER")
        st2 == InterpIters(src, st1, diameter - width,
                           outer_scale, inner_scale, half, "TRIVIAL")
        st3 == InterpIters(src, st2, UnrolledIters(diameter, width),
                           outer_scale, inner_scale, half, "CENTER")
    IN  InterpIters(src, st3, UnrolledIters(0, border),
                    outer_scale, inner_scale, half, "RIGHT_BORDER")

RECURSIVE boxBlurInterpRows(_, _, _, _, _, _, _)
boxBlurInterpRows(src, src_y_stride, radius, width, height, outer_weight, y) ==
    IF y >= height THEN <<>>
    ELSE <<boxBlurInterpRow(src, y * src_y_stride, radius, width, outer_weight)>>
         \o boxBlurInterpRows(src, src_y_stride, radius, width, height, outer_weight, y + 1)

boxBlurInterp(src, src_y_stride, dstbuf, radius, width, height, transpose, outer_weight) ==
    LET diameter == radius * 2
        new_width == width + diameter
        dst_x_stride == IF transpose THEN height ELSE 1
        dst_y_stride == IF transpose THEN 1 ELSE new_width
        rs == boxBlurInterpRows(src, src_y_stride, radius, width, height, outer_weight, 0)
        outs == [y \in 1..Len(rs) |-> rs[y].out]
    IN  [buf     |-> Scatter(dstbuf, 0, outs, dst_x_stride, dst_y_stride),
         width   |-> new_width,
         sumZero |-> \A y \in 1..Len(rs) : rs[y].outer_sum = 0 /\ rs[y].inner_sum = 0,
         wrap    |-> \E y \in 1..Len(rs) : rs[y].wrap,
         bad     |-> (\E y \in 1..Len(rs) : rs[y].bad)
                     \/ ScatterOob(dstbuf, 0, outs, dst_x_stride, dst_y_stride)]

\* get_adjusted_radii: <<loRadius, hiRadius>>
get_adjusted_radii(passRadius) ==
    LET hiRadius == SkScalarCeil(passRadius)
    IN  IF SkScalarLT(<<1, 2>>, SkScalarSub(SkIntToScalar(hiRadius), passRadius))
        THEN <<hiRadius - 1, hiRadius>>
        ELSE <<hiRadius, hiRadius>>

-----------------------------------------------------------------------------
(* Summed-area table, part_001 lines 489-720 *)

\* SumRowIters without the iterations of the loop that runs while src is not
\* 4-aligned
SumRowIters_NoUnalignedLoop(srcW, addr) ==
    LET n1 == SkMin32(srcW, (4 - (addr % 4)) % 4)
        x1 == srcW - 1 - n1
        u  == IF x1 >= 4 THEN x1 \div 4 ELSE 0
        x2 == x1 - 4 * u
    IN  4 * u + (IF x2 >= 0 THEN x2 + 1 ELSE 0)

\* Iterations of the three loops of one row of build_sum_buffer ("while src is
\* not 4-aligned", "4 at a time", "the rest"), all with the same body, for a
\* row whose first byte is at an address congruent to addr modulo 4.
SumRowIters(srcW, addr) ==
    LET n1 == SkMin32(srcW, (4 - (addr % 4)) % 4)
        x1 == srcW - 1 - n1
        u  == IF x1 >= 4 THEN x1 \div 4 ELSE 0
        x2 == x1 - 4 * u
    IN  n1 + 4 * u + (IF x2 >= 0 THEN x2 + 1 ELSE 0)

\* "X = *src++ + X; *sum++ = X" n times
RECURSIVE SumFirstRow(_, _, _, _)
SumFirstRow(src, off, n, X) ==
    IF n <= 0 THEN <<>>
    ELSE LET X1 == Rd(src, off) + X
         IN  <<X1>> \o SumFirstRow(src, off + 1, n - 1, X1)

\* SumNextRow without the subtraction of the corner C
RECURSIVE SumNextRow_NoCorner(_, _, _, _, _, _, _)
SumNextRow_NoCorner(src, off, n, prev, i, L, C) ==
    IF n <= 0 THEN <<>>
    ELSE LET T == prev[i]
             X == Rd(src, off) + L + T
         IN  <<X>> \o SumNextRow_NoCorner(src, off + 1, n - 1, prev, i + 1, X, T)

\* "T = sum[-sumW]; X = *src++ + L + T - C; *sum++ = X; L = X; C = T" n times;
\* prev is the row of sum above, i the column of sum being written (1-based)
RECURSIVE SumNextRow(_, _, _, _, _, _, _)
SumNextRow(src, off, n, prev, i, L, C) ==
    IF n <= 0 THEN <<>>
    ELSE LET T == prev[i]
             X == Rd(src, off) + L + T - C
         IN  <<X>> \o SumNextRow(src, off + 1, n - 1, prev, i + 1, X, T)

RECURSIVE SumRestRows(_, _, _, _, _, _, _)
SumRestRows(src, srcW, srcRB, addr, prev, y, srcH) ==
    IF y >= srcH THEN <<>>
    ELSE LET row == <<0>> \o SumNextRow(src, y * srcRB, SumRowIters(srcW, addr + y * srcRB),
                                        prev, 2, 0, 0)
         IN  row \o SumRestRows(src, srcW, srcRB, addr, row, y + 1, srcH)

\* all loads of src made by build_sum_buffer are inside src and initialised
SumReadsOk(src, srcW, srcH, srcRB) ==
    \A y \in 0..(SkMax32(srcH, 1) - 1) : \A x \in 0..(srcW - 1) : ~BadRd(src, y * srcRB + x)

\* result: the sum buffer after the call and whether a load or store left its buffer
build_sum_buffer(sumbuf, srcW, srcH, src, srcRB, addr) ==
    LET sumW == srcW + 1
        top == Zeros(sumW)
        first == <<0>> \o SumFirstRow(src, 0, srcW, 0)
        stores == top \o first \o SumRestRows(src, srcW, srcRB, addr, first, 1, srcH)
    IN  [buf |-> [k \in 1..Len(sumbuf) |-> IF k <= Len(stores) THEN stores[k] ELSE sumbuf[k]],
         bad |-> Len(stores) > Len(sumbuf) \/ ~SumReadsOk(src, srcW, srcH, srcRB)]

\* KernelPixel adding the two corners it should subtract
KernelPixel_AddCorners(sum, a, b, c, d, scale) ==
    MulAddShr24(Rd(sum, a) + Rd(sum, b) + Rd(sum, c) + Rd(sum, d), scale, 0, 0, 0)

\* "tmp = sum[a] + sum[b] - sum[c] - sum[d]; *dst++ = SkToU8(tmp * scale >> 24)"
KernelPixel(sum, a, b, c, d, scale) ==
    MulAddShr24(Rd(sum, a) + Rd(sum, b) - Rd(sum, c) - Rd(sum, d), scale, 0, 0, 0)

KernelBad(sum, a, b, c, d) ==
    BadRd(sum, a) \/ BadRd(sum, b) \/ BadRd(sum, c) \/ BadRd(sum, d)

\* "tmp * scale" of KernelPixel does not fit the uint32_t it is computed in
KernelWraps(sum, a, b, c, d, scale) ==
    MulAddWraps(Rd(sum, a) + Rd(sum, b) - Rd(sum, c) - Rd(sum, d), scale, 0, 0, 0)

\* the stores "*dst++ = v" of a kernel, vals[k] being the k-th value stored
StoreSeq(dstbuf, vals, n) ==
    [k \in 1..Len(dstbuf) |-> IF k <= n THEN vals[k] ELSE dstbuf[k]]

kernel_clamped(dstbuf, rx, ry, sum, sw, sh) ==
    LET scale == 16777216 \div ((2 * rx + 1) * (2 * ry + 1))
        sumStride == sw + 1
        dw == sw + 2 * rx
        dh == sh + 2 * ry
        py(y) == SkClampPos(-2 * ry + y) * sumStride
        ny(y) == SkFastMin32(1 + y, sh) * sumStride
        px(x) == SkClampPos(-2 * rx + x)
        nx(x) == SkFastMin32(1 + x, sw)
        n == dw * dh
        vals == [k \in 1..n |->
                   LET y == (k - 1) \div dw
                       x == (k - 1) % dw
                   IN  KernelPixel(sum, px(x) + py(y), nx(x) + ny(y),
                                   nx(x) + py(y), px(x) + ny(y), scale)]
    IN  [buf |-> StoreSeq(dstbuf, vals, n),
         clamped |-> TRUE,
         wrap |-> \E y \in 0..(dh - 1), x \in 0..(dw - 1) :
                       KernelWraps(sum, px(x) + py(y), nx(x) + ny(y),
                                   nx(x) + py(y), px(x) + ny(y), scale),
         bad |-> n > Len(dstbuf)
                 \/ \E y \in 0..(dh - 1), x \in 0..(dw - 1) :
                       KernelBad(sum, px(x) + py(y), nx(x) + ny(y),
                                 nx(x) + py(y), px(x) + ny(y))]

\* apply_kernel whose centre and right sections start one column late
apply_kernel_CentreShifted(dstbuf, rx, ry, sum, sw, sh) ==
    IF 2 * rx > sw THEN kernel_clamped(dstbuf, rx, ry, sum, sw, sh)
    ELSE
    LET scale == 16777216 \div ((2 * rx + 1) * (2 * ry + 1))
        sumStride == sw + 1
        dw == sw + 2 * rx
        dh == sh + 2 * ry
        py(y) == SkClampPos(-2 * ry + y) * sumStride
        ny(y) == SkFastMin32(1 + y, sh) * sumStride
        \* left section: px = 0, nx = next_x; centre: prev_x, next_x;
        \* right section: px = prev_x, nx = sw
        px(x) == IF x < 2 * rx THEN 0 ELSE -2 * rx + x + 1
        nx(x) == IF x < dw - 2 * rx THEN 1 + x ELSE sw
        n == dw * dh
        vals == [k \in 1..n |->
                   LET y == (k - 1) \div dw
                       x == (k - 1) % dw
                   IN  KernelPixel(sum, px(x) + py(y), nx(x) + ny(y),
                                   nx(x) + py(y), px(x) + ny(y), scale)]
    IN  [buf |-> StoreSeq(dstbuf, vals, n),
         clamped |-> FALSE,
         wrap |-> \E y \in 0..(dh - 1), x \in 0..(dw - 1) :
                       KernelWraps(sum, px(x) + py(y), nx(x) + ny(y),
                                   nx(x) + py(y), px(x) + ny(y), scale),
         bad |-> n > Len(dstbuf)
                 \/ \E y \in 0..(dh - 1), x \in 0..(dw - 1) :
                       KernelBad(sum, px(x) + py(y), nx(x) + ny(y),
                                 nx(x) + py(y), px(x) + ny(y))]

\* lines 627-720; the three sections of a row compute px and nx as below
apply_kernel(dstbuf, rx, ry, sum, sw, sh) ==
    IF 2 * rx > sw THEN kernel_clamped(dstbuf, rx, ry, sum, sw, sh)
    ELSE
    LET scale == 16777216 \div ((2 * rx + 1) * (2 * ry + 1))
        sumStride == sw + 1
        dw == sw + 2 * rx
        dh == sh + 2 * ry
        py(y) == SkClampPos(-2 * ry + y) * sumStride
        ny(y) == SkFastMin32(1 + y, sh) * sumStride
        \* left section: px = 0, nx = next_x; centre: prev_x, next_x;
        \* right section: px = prev_x, nx = sw
        px(x) == IF x < 2 * rx THEN 0 ELSE -2 * rx + x
        nx(x) == IF x < dw - 2 * rx THEN 1 + x ELSE sw
        n == dw * dh
        vals == [k \in 1..n |->
                   LET y == (k - 1) \div dw
                       x == (k - 1) % dw
                   IN  KernelPixel(sum, px(x) + py(y), nx(x) + ny(y),
                                   nx(x) + py(y), px(x) + ny(y), scale)]
    IN  [buf |-> StoreSeq(dstbuf, vals, n),
         clamped |-> FALSE,
         wrap |-> \E y \in 0..(dh - 1), x \in 0..(dw - 1) :
                       KernelWraps(sum, px(x) + py(y), nx(x) + ny(y),
                                   nx(x) + py(y), px(x) + ny(y), scale),
         bad |-> n > Len(dstbuf)
                 \/ \E y \in 0..(dh - 1), x \in 0..(dw - 1) :
                       KernelBad(sum, px(x) + py(y), nx(x) + ny(y),
                                 nx(x) + py(y), px(x) + ny(y))]

-----------------------------------------------------------------------------
(* Interpolating kernels, part_001 lines 726-945 *)

\* "outerWeight += outerWeight >> 7" and "innerWeight += innerWeight >> 7" on ints
KernelOuterWeight(outerWeight) == outerWeight + (outerWeight \div 128)
KernelInnerWeight(outerWeight) == (255 - outerWeight) + ((255 - outerWeight) \div 128)

InterpPixel(sum, o, i, outerScale, innerScale) ==
    MulAddShr24(Rd(sum, o[1]) + Rd(sum, o[2]) - Rd(sum, o[3]) - Rd(sum, o[4]), outerScale,
                Rd(sum, i[1]) + Rd(sum, i[2]) - Rd(sum, i[3]) - Rd(sum, i[4]), innerScale, 0)

\* "outerSum * outerScale + innerSum * innerScale" of InterpPixel does not fit
\* the uint32_t it is computed in
InterpWraps(sum, o, i, outerScale, innerScale) ==
    MulAddWraps(Rd(sum, o[1]) + Rd(sum, o[2]) - Rd(sum, o[3]) - Rd(sum, o[4]), outerScale,
                Rd(sum, i[1]) + Rd(sum, i[2]) - Rd(sum, i[3]) - Rd(sum, i[4]), innerScale, 0)

kernel_interp_clamped(dstbuf, rx, ry, sum, sw, sh, outerWeight) ==
    LET outerScale == CDiv(KernelOuterWeight(outerWeight) * 65536, (2 * rx + 1) * (2 * ry + 1))
        innerScale == CDiv(KernelInnerWeight(outerWeight) * 65536, (2 * rx - 1) * (2 * ry - 1))
        sumStride == sw + 1
        dw == sw + 2 * rx
        dh == sh + 2 * ry
        py(y) == SkClampPos(-2 * ry + y) * sumStride
        ny(y) == SkFastMin32(1 + y, sh) * sumStride
        ipy(y) == SkClampPos(-2 * ry + y + 1) * sumStride
        iny(y) == SkClampMax(y, sh) * sumStride
        px(x) == SkClampPos(-2 * rx + x)
        nx(x) == SkFastMin32(1 + x, sw)
        ipx(x) == SkClampPos(-2 * rx + x + 1)
        inx(x) == SkClampMax(x, sw)
        o(x, y) == <<px(x) + py(y), nx(x) + ny(y), nx(x) + py(y), px(x) + ny(y)>>
        i(x, y) == <<ipx(x) + ipy(y), inx(x) + iny(y), inx(x) + ipy(y), ipx(x) + iny(y)>>
        n == dw * dh
        vals == [k \in 1..n |->
                   LET y == (k - 1) \div dw
                       x == (k - 1) % dw
                   IN  InterpPixel(sum, o(x, y), i(x, y), outerScale, innerScale)]
    IN  [buf |-> StoreSeq(dstbuf, vals, n),
         clamped |-> TRUE,
         wrap |-> \E y \in 0..(dh - 1), x \in 0..(dw - 1) :
                       InterpWraps(sum, o(x, y), i(x, y), outerScale, innerScale),
         bad |-> n > Len(dstbuf)
                 \/ \E y \in 0..(dh - 1), x \in 0..(dw - 1) :
                       \E j \in 1..4 : BadRd(sum, o(x, y)[j]) \/ BadRd(sum, i(x, y)[j])]

apply_kernel_interp(dstbuf, rx, ry, sum, sw, sh, outerWeight) ==
    IF 2 * rx > sw THEN kernel_interp_clamped(dstbuf, rx, ry, sum, sw, sh, outerWeight)
    ELSE
    LET outerScale == CDiv(KernelOuterWeight(outerWeight) * 65536, (2 * rx + 1) * (2 * ry + 1))
        innerScale == CDiv(KernelInnerWeight(outerWeight) * 65536, (2 * rx - 1) * (2 * ry - 1))
        sumStride == sw + 1
        dw == sw + 2 * rx
        dh == sh + 2 * ry
        py(y) == SkClampPos(-2 * ry + y) * sumStride
        ny(y) == SkFastMin32(1 + y, sh) * sumStride
        ipy(y) == SkClampPos(-2 * ry + y + 1) * sumStride
        iny(y) == SkClampMax(y, sh) * sumStride
        \* left section: px = 0, nx = next_x, ipx = 0, inx = next_x - 1;
        \* centre: prev_x, next_x, prev_x + 1, next_x - 1;
        \* right section: px = prev_x, nx = sw, ipx = prev_x + 1, inx = sw
        px(x) == IF x < 2 * rx THEN 0 ELSE -2 * rx + x
        nx(x) == IF x < dw - 2 * rx THEN 1 + x ELSE sw
        ipx(x) == IF x < 2 * rx THEN 0 ELSE -2 * rx + x + 1
        inx(x) == IF x < dw - 2 * rx THEN x ELSE sw
        o(x, y) == <<px(x) + py(y), nx(x) + ny(y), nx(x) + py(y), px(x) + ny(y)>>
        i(x, y) == <<ipx(x) + ipy(y), inx(x) + iny(y), inx(x) + ipy(y), ipx(x) + iny(y)>>
        n == dw * dh
        vals == [k \in 1..n |->
                   LET y == (k - 1) \div dw
                       x == (k - 1) % dw
                   IN  InterpPixel(sum, o(x, y), i(x, y), outerScale, innerScale)]
    IN  [buf |-> StoreSeq(dstbuf, vals, n),
         clamped |-> FALSE,
         wrap |-> \E y \in 0..(dh - 1), x \in 0..(dw - 1) :
                       InterpWraps(sum, o(x, y), i(x, y), outerScale, innerScale),
         bad |-> n > Len(dstbuf)
                 \/ \E y \in 0..(dh - 1), x \in 0..(dw - 1) :
                       \E j \in 1..4 : BadRd(sum, o(x, y)[j]) \/ BadRd(sum, i(x, y)[j])]

-----------------------------------------------------------------------------
(* Style post-processing, part_001 lines 949-1001 *)

\* SkColorPriv.h / SkMath.h
SkAlpha255To256(alpha) == alpha + 1
SkAlphaMul(value, alpha256) == (value * alpha256) \div 256
SkMulDiv255Round(a, b) ==
    LET prod == a * b + 128
    IN  (prod + (prod \div 256)) \div 256
SkToU8(x) == x % 256

\* MergePixel rounding to nearest instead of truncating
MergePixel_Rounded(blur, src) == SkToU8((blur * SkAlpha255To256(src) + 128) \div 256)

\* "*dst = SkToU8(SkAlphaMul(*blur, SkAlpha255To256(*src)))"
MergePixel(blur, src) == SkToU8(SkAlphaMul(blur, SkAlpha255To256(src)))

\* merge_src_with_blur advancing blur by the row stride of src
merge_src_with_blur_SrcStride(dstbuf, dstRB, src, srcRB, blur, blurOff, blurRB, sw, sh) ==
    LET rows == [y \in 1..SkClampPos(sh) |-> [x \in 1..SkClampPos(sw) |->
                    MergePixel(Rd(blur, blurOff + (y - 1) * srcRB + (x - 1)),
                               Rd(src, (y - 1) * srcRB + (x - 1)))]]
    IN  [buf |-> Scatter(dstbuf, 0, rows, 1, dstRB),
         bad |-> ScatterOob(dstbuf, 0, rows, 1, dstRB)]

\* dst, src and blur are advanced together; blur starts at offset blurOff of its buffer
merge_src_with_blur(dstbuf, dstRB, src, srcRB, blur, blurOff, blurRB, sw, sh) ==
    LET rows == [y \in 1..SkClampPos(sh) |-> [x \in 1..SkClampPos(sw) |->
                    MergePixel(Rd(blur, blurOff + (y - 1) * blurRB + (x - 1)),
                               Rd(src, (y - 1) * srcRB + (x - 1)))]]
    IN  [buf |-> Scatter(dstbuf, 0, rows, 1, dstRB),
         bad |-> ScatterOob(dstbuf, 0, rows, 1, dstRB)
                 \/ \E y \in 1..SkClampPos(sh), x \in 1..SkClampPos(sw) :
                       BadRd(blur, blurOff + (y - 1) * blurRB + (x - 1))
                       \/ BadRd(src, (y - 1) * srcRB + (x - 1))]

\* ClampPixel whose solid case subtracts SkAlphaMul(s, d) instead of SkMulDiv255Round(s, d)
ClampPixel_SolidAlphaMul(s, d, style) ==
    CASE style = "kSolid_Style" -> SkToU8(s + d - SkAlphaMul(s, d))
      [] style = "kOuter_Style" ->
            IF s # 0 THEN SkToU8(SkAlphaMul(d, SkAlpha255To256(255 - s))) ELSE d
      [] OTHER -> d

\* ClampPixel whose outer case scales by the source instead of its complement
ClampPixel_OuterNotInverted(s, d, style) ==
    CASE style = "kSolid_Style" -> SkToU8(s + d - SkMulDiv255Round(s, d))
      [] style = "kOuter_Style" ->
            IF s # 0 THEN SkToU8(SkAlphaMul(d, SkAlpha255To256(s))) ELSE d
      [] OTHER -> d

\* the value left in *dst by one iteration of the loop of the given style
\* ClampPixel storing 0 in outer style where the source pixel is 0
ClampPixel_OuterClears(s, d, style) ==
    CASE style = "kSolid_Style" -> SkToU8(s + d - SkMulDiv255Round(s, d))
      [] style = "kOuter_Style" ->
            IF s # 0 THEN SkToU8(SkAlphaMul(d, SkAlpha255To256(255 - s))) ELSE 0
      [] OTHER -> d

ClampPixel(s, d, style) ==
    CASE style = "kSolid_Style" -> SkToU8(s + d - SkMulDiv255Round(s, d))
      [] style = "kOuter_Style" ->
            IF s # 0 THEN SkToU8(SkAlphaMul(d, SkAlpha255To256(255 - s))) ELSE d
      [] OTHER -> d

\* dst starts at offset dstOff of dstbuf and is modified in place
clamp_with_orig(dstbuf, dstOff, dstRowBytes, src, srcRowBytes, sw, sh, style) ==
    LET rows == [y \in 1..SkClampPos(sh) |->
                    IF style \in {"kSolid_Style", "kOuter_Style"}
                    THEN [x \in 1..SkClampPos(sw) |->
                            ClampPixel(Rd(src, (y - 1) * srcRowBytes + (x - 1)),
                                       Rd(dstbuf, dstOff + (y - 1) * dstRowBytes + (x - 1)),
                                       style)]
                    ELSE <<>>]
    IN  [buf |-> Scatter(dstbuf, dstOff, rows, 1, dstRowBytes),
         bad |-> ScatterOob(dstbuf, dstOff, rows, 1, dstRowBytes)
                 \/ \E y \in 1..Len(rows) : \E x \in 1..Len(rows[y]) :
                       BadRd(src, (y - 1) * srcRowBytes + (x - 1))
                       \/ BadRd(dstbuf, dstOff + (y - 1) * dstRowBytes + (x - 1))]

-----------------------------------------------------------------------------
(* SkMask and the heap *)

NULL == "NULL"
kA8_Format == "kA8_Format"
kBW_Format == "kBW_Format"

Width(b) == b.fRight - b.fLeft
Height(b) == b.fBottom - b.fTop

\* SkMask::computeImageSize: rowBytes * height, 0 when that does not fit 32 bits
computeImageSize(m) ==
    LET h == Height(m.fBounds)
    IN  IF h <= 0 \/ m.fRowBytes <= 0 THEN 0
        ELSE IF m.fRowBytes > 2147483647 \div h THEN 0
        ELSE h * m.fRowBytes

\* the buffers a call can allocate
BufNames == {"dp", "tmpBuffer", "storage", "inner", "profile", "horizontalScanline",
             "gaussWindow", "padPixels", "tmpImage"}

NoHeap == [n \in BufNames |-> "none"]
NoMem == [n \in {"dp", "inner"} |-> <<>>]

\* the heap after the allocations and releases of evs, in order
RECURSIVE HeapRun(_, _)
HeapRun(h, evs) ==
    IF evs = <<>> THEN h
    ELSE LET e == Head(evs)
             h1 == IF e[1] = "alloc" THEN [h EXCEPT ![e[2]] = "live"]
                   ELSE [h EXCEPT ![e[2]] = IF @ = "live" THEN "freed" ELSE "doublefree"]
         IN  HeapRun(h1, Tail(evs))

-----------------------------------------------------------------------------
(* SkBlurMask::Blur, part_001 lines 1012-1186 *)

kLow_Quality == "kLow_Quality"
kHigh_Quality == "kHigh_Quality"
Styles == {"kNormal_Style", "kSolid_Style", "kOuter_Style", "kInner_Style"}
Qualities == {kLow_Quality, kHigh_Quality}

\* what a call leaves behind: the value returned, *dst, *margin, the state of
\* every buffer it allocated, the last contents of the blurred buffer dp and of
\* the inner-style image, the kernel invocations made, and the faults (a failed
\* SkASSERT, a load or store outside a buffer or a load of a byte never written)
Outcome(r, d, m, evs, mem_, calls_, faults) ==
    [ret |-> r, dst |-> d, margin |-> m, heap |-> HeapRun(NoHeap, evs),
     mem |-> mem_, calls |-> calls_, fault |-> faults]

Faults(bad, assertFailed) ==
    (IF bad THEN {"memory"} ELSE {}) \cup (IF assertFailed THEN {"assert"} ELSE {})

\* the fault of a uint32_t expression whose value wrapped modulo 2^32
Overflow(wrapped) == IF wrapped THEN {"overflow"} ELSE {}

CallRec(fn, axis, lo, hi, w, h) ==
    [fn |-> fn, axis |-> axis, lo |-> lo, hi |-> hi, w |-> w, h |-> h]

\* one call of boxBlur or boxBlurInterp (lines 1076-1103); the interpolating
\* variant is the one called when outerWeight is not 255
BoxPassCall(src, stride, dstbuf, l, r, rad, width, height, transpose, outerWeight) ==
    IF outerWeight # 255
    THEN boxBlurInterp(src, stride, dstbuf, rad, width, height, transpose, outerWeight % 256)
    ELSE boxBlur(src, stride, dstbuf, l, r, width, height, transpose)

BoxPassRec(axis, l, r, rad, width, height, outerWeight) ==
    IF outerWeight # 255 THEN CallRec("boxBlurInterp", axis, rad, rad, width, height)
    ELSE CallRec("boxBlur", axis, l, r, width, height)

\* the buffers tp and dp and the variables w and h after a pass that wrote the
\* buffer named to and returned res
BoxPassDone(st, to, axis, res, rec) ==
    [tp |-> IF to = "tp" THEN res.buf ELSE st.tp,
     dp |-> IF to = "dp" THEN res.buf ELSE st.dp,
     w |-> IF axis = "x" THEN res.width ELSE st.w,
     h |-> IF axis = "y" THEN res.width ELSE st.h,
     calls |-> Append(st.calls, rec),
     bad |-> st.bad \/ res.bad,
     sumZero |-> st.sumZero /\ res.sumZero]

\* "w = boxBlur(from, stride, to, l, r, w, h, transpose)"; from is "sp" in the first pass
XPass(st, sp, srcRB, from, to, l, r, rad, transpose, outerWeight) ==
    BoxPassDone(st, to, "x",
                BoxPassCall(IF from = "sp" THEN sp ELSE st[from],
                            IF from = "sp" THEN srcRB ELSE st.w,
                            st[to], l, r, rad, st.w, st.h, transpose, outerWeight),
                BoxPassRec("x", l, r, rad, st.w, st.h, outerWeight))

\* YPass whose passes never transpose
YPass_NoTranspose(st, from, to, l, r, rad, transpose, outerWeight) ==
    BoxPassDone(st, to, "y",
                BoxPassCall(st[from], st.h, st[to], l, r, rad, st.h, st.w, FALSE,
                            outerWeight),
                BoxPassRec("y", l, r, rad, st.h, st.w, outerWeight))

\* "h = boxBlur(from, h, to, l, r, h, w, transpose)"
YPass(st, from, to, l, r, rad, transpose, outerWeight) ==
    BoxPassDone(st, to, "y",
                BoxPassCall(st[from], st.h, st[to], l, r, rad, st.h, st.w, transpose,
                            outerWeight),
                BoxPassRec("y", l, r, rad, st.h, st.w, outerWeight))

\* lines 1071-1105: the separable passes from sp into dp by way of tp
SeparablePasses(sp, srcRB, tp0, dp0, sw, sh, rx, ry, passRadius, outerWeight, quality) ==
    LET radii == get_adjusted_radii(passRadius)
        lo == radii[1]
        hi == radii[2]
        st0 == [tp |-> tp0, dp |-> dp0, w |-> sw, h |-> sh, calls |-> <<>>,
                bad |-> FALSE, sumZero |-> TRUE]
    IN  IF quality = kHigh_Quality
        THEN YPass(YPass(YPass(
               XPass(XPass(XPass(st0, sp, srcRB, "sp", "tp", lo, hi, rx, FALSE, outerWeight),
                           sp, srcRB, "tp", "dp", hi, lo, rx, FALSE, outerWeight),
                     sp, srcRB, "dp", "tp", hi, hi, rx, TRUE, outerWeight),
               "tp", "dp", lo, hi, ry, FALSE, outerWeight),
               "dp", "tp", hi, lo, ry, FALSE, outerWeight),
               "tp", "dp", hi, hi, ry, TRUE, outerWeight)
        ELSE YPass(XPass(st0, sp, srcRB, "sp", "tp", rx, rx, rx, TRUE, outerWeight),
                   "tp", "dp", ry, ry, ry, TRUE, outerWeight)

\* lines 1113-1117: apply_kernel, or apply_kernel_interp when outerWeight is not 255
KernelCall(dstbuf, rx, ry, sum, w, h, outerWeight) ==
    IF outerWeight = 255 THEN apply_kernel(dstbuf, rx, ry, sum, w, h)
    ELSE apply_kernel_interp(dstbuf, rx, ry, sum, w, h, outerWeight)

\* sumBuffer, tmpBuffer and dp after the kernel wrote k into the buffer named to
SumPassDone(st, to, b, k, w, h, rx, ry, outerWeight) ==
    [sum |-> b.buf,
     tp |-> IF to = "tp" THEN k.buf ELSE st.tp,
     dp |-> IF to = "dp" THEN k.buf ELSE st.dp,
     calls |-> Append(st.calls,
                      CallRec(IF outerWeight = 255 THEN "apply_kernel"
                              ELSE "apply_kernel_interp", "xy", rx, ry, w, h)),
     bad |-> st.bad \/ b.bad \/ k.bad,
     sumZero |-> TRUE]

SumPassKernel(st, to, b, w, h, rx, ry, outerWeight) ==
    SumPassDone(st, to, b, KernelCall(st[to], rx, ry, b.buf, w, h, outerWeight),
                w, h, rx, ry, outerWeight)

\* one pass: build_sum_buffer from the buffer named from, then the kernel into to
SumPass(st, sp, from, srcRB, addr, to, w, h, rx, ry, outerWeight) ==
    SumPassKernel(st, to,
                  build_sum_buffer(st.sum, w, h, IF from = "sp" THEN sp ELSE st[from],
                                   srcRB, addr),
                  w, h, rx, ry, outerWeight)

\* lines 1107-1141: the summed-area-table passes from sp into dp
SumBufferPasses(sp, srcRB, srcAddr, dp0, dstSize, sw, sh, rx, ry, passCount, outerWeight, quality) ==
    LET storageW == sw + 2 * (passCount - 1) * rx + 1
        storageH == sh + 2 * (passCount - 1) * ry + 1
        st0 == [sum |-> NewBuf(storageW * storageH), tp |-> NewBuf(dstSize), dp |-> dp0,
                calls |-> <<>>, bad |-> FALSE, sumZero |-> TRUE]
        tmp_sw == sw + 2 * rx
        tmp_sh == sh + 2 * ry
    IN  IF quality = kHigh_Quality
        THEN SumPass(SumPass(SumPass(st0, sp, "sp", srcRB, srcAddr, "dp", sw, sh,
                                     rx, ry, outerWeight),
                             sp, "dp", tmp_sw, 0, "tp", tmp_sw, tmp_sh, rx, ry, outerWeight),
                     sp, "tp", tmp_sw + 2 * rx, 0, "dp", tmp_sw + 2 * rx, tmp_sh + 2 * ry,
                     rx, ry, outerWeight)
        ELSE SumPass(st0, sp, "sp", srcRB, srcAddr, "dp", sw, sh, rx, ry, outerWeight)

\* the allocations of lines 1066-1142: dp, guarded by autoCall, and the
\* temporaries released at the end of the block that builds the blur
BlurImageAllocs(quality, separable) ==
    <<<<"alloc", "dp">>>> \o
    (IF separable THEN <<<<"alloc", "tmpBuffer">>, <<"free", "tmpBuffer">>>>
     ELSE IF quality = kHigh_Quality
     THEN <<<<"alloc", "storage">>, <<"alloc", "tmpBuffer">>,
            <<"free", "tmpBuffer">>, <<"free", "storage">>>>
     ELSE <<<<"alloc", "storage">>, <<"free", "storage">>>>)

\* lines 1144-1164: the style applied to the blur b held in dp
BlurStyle(dst2, margin1, src, b, evs, off, style, assertFailed) ==
    IF style = "kInner_Style"
    THEN IF 0 = computeImageSize(src)
         THEN \* return false: autoCall releases dp
              Outcome(FALSE, dst2, margin1, evs \o <<<<"free", "dp">>>>,
                      [dp |-> b.dp, inner |-> <<>>], b.calls,
                      Faults(b.bad, assertFailed \/ ~b.sumZero))
         ELSE LET m == merge_src_with_blur(NewBuf(computeImageSize(src)), src.fRowBytes,
                                           src.data, src.fRowBytes, b.dp, off,
                                           dst2.fRowBytes, Width(src.fBounds),
                                           Height(src.fBounds))
              IN  Outcome(TRUE,
                          [dst2 EXCEPT !.fImage = "inner",
                                       !.fBounds = src.fBounds,
                                       !.fRowBytes = src.fRowBytes],
                          margin1,
                          evs \o <<<<"alloc", "inner">>, <<"free", "dp">>>>,
                          [dp |-> b.dp, inner |-> m.buf], b.calls,
                          Faults(b.bad \/ m.bad, assertFailed \/ ~b.sumZero))
    ELSE IF style # "kNormal_Style"
    THEN LET c == clamp_with_orig(b.dp, off, dst2.fRowBytes, src.data, src.fRowBytes,
                                  Width(src.fBounds), Height(src.fBounds), style)
         IN  Outcome(TRUE, dst2, margin1, evs, [dp |-> c.buf, inner |-> <<>>],
                     b.calls, Faults(b.bad \/ c.bad, assertFailed \/ ~b.sumZero))
    ELSE Outcome(TRUE, dst2, margin1, evs, [dp |-> b.dp, inner |-> <<>>],
                 b.calls, Faults(b.bad, assertFailed \/ ~b.sumZero))

\* lines 1057-1164, entered with src.fImage non-null
BlurImage(dst1, margin1, src, rx, ry, passCount, passRadius, outerWeight, style, quality, separable, assertFailed) ==
    IF 0 = computeImageSize(dst1)
    THEN Outcome(FALSE, dst1, margin1, <<>>, NoMem, <<>>, Faults(FALSE, assertFailed))
    ELSE BlurStyle([dst1 EXCEPT !.fImage = "dp"], margin1, src,
                   IF separable
                   THEN SeparablePasses(src.data, src.fRowBytes,
                                        NewBuf(computeImageSize(dst1)),
                                        NewBuf(computeImageSize(dst1)),
                                        Width(src.fBounds), Height(src.fBounds),
                                        rx, ry, passRadius, outerWeight, quality)
                   ELSE SumBufferPasses(src.data, src.fRowBytes, src.addr,
                                        NewBuf(computeImageSize(dst1)),
                                        computeImageSize(dst1),
                                        Width(src.fBounds), Height(src.fBounds),
                                        rx, ry, passCount, outerWeight, quality),
                   BlurImageAllocs(quality, separable),
                   passCount * (rx + ry * dst1.fRowBytes), style, assertFailed)

\* BlurRx rounding up by floor + 1
BlurRx_FloorPlusOne(passRadius) == SkScalarFloor(passRadius) + 1

\* lines 1033-1040: the pass radius rounded up, tested by "if (rx <= 0) return false"
BlurRx(passRadius) == SkScalarCeil(passRadius)

\* line 1034
BlurOuterWeight(rx, passRadius) ==
    255 - SkScalarRound(SkScalarMul(SkScalarSub(SkIntToScalar(rx), passRadius),
                                    SkIntToScalar(255)))

\* BlurPasses forcing high quality off for radius <= 3 instead of radius < 3
BlurPasses_ThresholdInclusive(radius, quality0) ==
    LET quality == IF ~SkScalarLT(SkIntToScalar(3), radius) THEN kLow_Quality ELSE quality0
    IN  <<quality,
          IF kHigh_Quality = quality THEN 3 ELSE 1,
          IF kHigh_Quality = quality THEN SkScalarMul(radius, kBlurRadiusFudgeFactor)
          ELSE radius>>

\* lines 1021-1031: <<quality used, passCount, passRadius>>
BlurPasses(radius, quality0) ==
    LET quality == IF SkScalarLT(radius, SkIntToScalar(3)) THEN kLow_Quality ELSE quality0
    IN  <<quality,
          IF kHigh_Quality = quality THEN 3 ELSE 1,
          IF kHigh_Quality = quality THEN SkScalarMul(radius, kBlurRadiusFudgeFactor)
          ELSE radius>>

\* lines 1044-1055: *margin and *dst as set before any pixel is computed
BlurSetMargin(margin0, marginPtr, padx, pady) ==
    IF marginPtr THEN <<padx, pady>> ELSE margin0

\* BlurSetBounds growing the bounds on the left and top only
BlurSetBounds_LeftTopOnly(src, padx, pady) ==
    LET b == [fLeft |-> src.fBounds.fLeft - padx, fTop |-> src.fBounds.fTop - pady,
              fRight |-> src.fBounds.fRight, fBottom |-> src.fBounds.fBottom]
    IN  [fBounds |-> b, fRowBytes |-> Width(b), fFormat |-> kA8_Format, fImage |-> NULL]

BlurSetBounds(src, padx, pady) ==
    LET b == [fLeft |-> src.fBounds.fLeft - padx, fTop |-> src.fBounds.fTop - pady,
              fRight |-> src.fBounds.fRight + padx, fBottom |-> src.fBounds.fBottom + pady]
    IN  [fBounds |-> b, fRowBytes |-> Width(b), fFormat |-> kA8_Format, fImage |-> NULL]

\* Blur without the restore of the bounds for an inner-style mask without image
Blur_NullImageKeepsOutset(dst0, margin0, src, radius, style, quality0, marginPtr, separable) ==
    IF src.fFormat # kA8_Format
    THEN Outcome(FALSE, dst0, margin0, <<>>, NoMem, <<>>, {})
    ELSE
    LET ps == BlurPasses(radius, quality0)
        quality == ps[1]
        passCount == ps[2]
        passRadius == ps[3]
        rx == BlurRx(passRadius)
        outerWeight == BlurOuterWeight(rx, passRadius)
        assertFailed == rx < 0 \/ outerWeight < 0 \/ outerWeight > 255
    IN  IF rx <= 0
        THEN Outcome(FALSE, dst0, margin0, <<>>, NoMem, <<>>, Faults(FALSE, assertFailed))
        ELSE
        LET ry == rx
            padx == passCount * rx
            pady == passCount * ry
            margin1 == BlurSetMargin(margin0, marginPtr, padx, pady)
            dst1 == BlurSetBounds(src, padx, pady)
        IN  IF src.fImage # NULL
            THEN BlurImage(dst1, margin1, src, rx, ry, passCount, passRadius, outerWeight,
                           style, quality, separable, assertFailed)
            ELSE Outcome(TRUE, dst1, margin1, <<>>, NoMem, <<>>,
                         Faults(FALSE, assertFailed))

\* the 7-argument Blur; dst0 and margin0 are *dst and *margin on entry and
\* marginPtr tells whether margin is non-null
Blur(dst0, margin0, src, radius, style, quality0, marginPtr, separable) ==
    IF src.fFormat # kA8_Format
    THEN Outcome(FALSE, dst0, margin0, <<>>, NoMem, <<>>, {})
    ELSE
    LET ps == BlurPasses(radius, quality0)
        quality == ps[1]
        passCount == ps[2]
        passRadius == ps[3]
        rx == BlurRx(passRadius)
        outerWeight == BlurOuterWeight(rx, passRadius)
        assertFailed == rx < 0 \/ outerWeight < 0 \/ outerWeight > 255
    IN  IF rx <= 0
        THEN Outcome(FALSE, dst0, margin0, <<>>, NoMem, <<>>, Faults(FALSE, assertFailed))
        ELSE
        LET ry == rx
            padx == passCount * rx
            pady == passCount * ry
            margin1 == BlurSetMargin(margin0, marginPtr, padx, pady)
            dst1 == BlurSetBounds(src, padx, pady)
        IN  IF src.fImage # NULL
            THEN BlurImage(dst1, margin1, src, rx, ry, passCount, passRadius, outerWeight,
                           style, quality, separable, assertFailed)
            ELSE Outcome(TRUE,
                         IF style = "kInner_Style"
                         THEN [dst1 EXCEPT !.fBounds = src.fBounds,
                                           !.fRowBytes = src.fRowBytes]
                         ELSE dst1,
                         margin1, <<>>, NoMem, <<>>, Faults(FALSE, assertFailed))

\* line 1174
BlurSeparable(dst0, margin0, src, radius, style, quality, marginPtr) ==
    Blur(dst0, margin0, src, radius, style, quality, marginPtr, TRUE)

\* line 1181, the 6-argument Blur
Blur6(dst0, margin0, src, radius, style, quality, marginPtr) ==
    Blur(dst0, margin0, src, radius, style, quality, marginPtr, FALSE)

-----------------------------------------------------------------------------
(* SkBlurMask::BlurRect, part_001 lines 1246-1420.  gaussianIntegral and the   *)
(* profile are float computations; the pixel values they produce are not       *)
(* represented, the buffers that hold them are.                                *)

kJustComputeBounds_CreateMode == "kJustComputeBounds_CreateMode"
kComputeBoundsAndRenderImage_CreateMode == "kComputeBoundsAndRenderImage_CreateMode"
CreateModes == {kJustComputeBounds_CreateMode, kComputeBoundsAndRenderImage_CreateMode}

compute_profile_size(radius) == SkScalarRound(SkScalarMul(radius, SkIntToScalar(3)))

\* lines 1302-1305
BlurRectRadius(provided_radius) ==
    SkScalarMul(SkScalarAdd(SkScalarMul(provided_radius, kBlurRadiusFudgeFactor), <<1, 2>>),
                SkIntToScalar(2))

RoundedBounds(r, pad) ==
    [fLeft |-> SkScalarRound(SkScalarSub(r.fLeft, SkIntToScalar(pad))),
     fTop |-> SkScalarRound(SkScalarSub(r.fTop, SkIntToScalar(pad))),
     fRight |-> SkScalarRound(SkScalarAdd(r.fRight, SkIntToScalar(pad))),
     fBottom |-> SkScalarRound(SkScalarAdd(r.fBottom, SkIntToScalar(pad)))]

\* lines 1390-1395: (size_t)(src.width() * src.height())
BlurRectSrcSize(r) ==
    SkScalarFloor(SkScalarMul(SkScalarSub(r.fRight, r.fLeft), SkScalarSub(r.fBottom, r.fTop)))

\* lines 1336-1419: the buffers of a call that renders the image, and what it returns
BlurRectImage(dst1, margin1, src, style, profile_size, sw) ==
    LET \* compute_profile: SkNEW_ARRAY then "profile[0] = 255"; ada owns the array
        evsProfile == <<<<"alloc", "profile">>>>
        profileBad == profile_size <= 0
        dstSize == computeImageSize(dst1)
    IN  IF 0 = dstSize
        THEN Outcome(FALSE, dst1, margin1, evsProfile \o <<<<"free", "profile">>>>,
                     NoMem, <<>>, Faults(profileBad, FALSE))
        ELSE
        LET dst2 == [dst1 EXCEPT !.fImage = "dp"]
            evsScan == evsProfile \o <<<<"alloc", "dp">>, <<"alloc", "horizontalScanline">>>>
            \* the destructors of horizontalScanline and ada, run at every return
            evsExit == <<<<"free", "horizontalScanline">>, <<"free", "profile">>>>
        IN  IF style = "kInner_Style"
            THEN IF 0 = BlurRectSrcSize(src)
                 THEN Outcome(FALSE, dst2, margin1, evsScan \o evsExit, NoMem, <<>>,
                              Faults(profileBad, FALSE))
                 ELSE Outcome(TRUE,
                              [dst2 EXCEPT !.fImage = "inner",
                                           !.fBounds = RoundedBounds(src, 0),
                                           !.fRowBytes = sw],
                              margin1,
                              evsScan \o <<<<"alloc", "inner">>, <<"free", "dp">>>> \o evsExit,
                              NoMem, <<>>, Faults(profileBad, FALSE))
            ELSE Outcome(TRUE, dst2, margin1, evsScan \o evsExit, NoMem, <<>>,
                         Faults(profileBad, FALSE))

\* BlurRect whose bounds-only return does not restore the bounds for the inner style
BlurRect_NoRestore(dst0, margin0, src, provided_radius, style, marginPtr, createMode) ==
    LET radius == BlurRectRadius(provided_radius)
        profile_size == compute_profile_size(radius)
        pad == CDiv(profile_size, 2)
        margin1 == IF marginPtr THEN <<pad, pad>> ELSE margin0
        b == RoundedBounds(src, pad)
        dst1 == [fBounds |-> b, fRowBytes |-> Width(b), fFormat |-> kA8_Format,
                 fImage |-> NULL]
        sw == SkScalarFloor(SkScalarSub(src.fRight, src.fLeft))
    IN  IF createMode = kJustComputeBounds_CreateMode
        THEN Outcome(TRUE, dst1, margin1, <<>>, NoMem, <<>>, {})
        ELSE BlurRectImage(dst1, margin1, src, style, profile_size, sw)

BlurRect(dst0, margin0, src, provided_radius, style, marginPtr, createMode) ==
    LET radius == BlurRectRadius(provided_radius)
        profile_size == compute_profile_size(radius)
        pad == CDiv(profile_size, 2)
        margin1 == IF marginPtr THEN <<pad, pad>> ELSE margin0
        b == RoundedBounds(src, pad)
        dst1 == [fBounds |-> b, fRowBytes |-> Width(b), fFormat |-> kA8_Format,
                 fImage |-> NULL]
        sw == SkScalarFloor(SkScalarSub(src.fRight, src.fLeft))
    IN  IF createMode = kJustComputeBounds_CreateMode
        THEN Outcome(TRUE,
                     IF style = "kInner_Style"
                     THEN [dst1 EXCEPT !.fBounds = RoundedBounds(src, 0), !.fRowBytes = sw]
                     ELSE dst1,
                     margin1, <<>>, NoMem, <<>>, {})
        ELSE BlurRectImage(dst1, margin1, src, style, profile_size, sw)

-----------------------------------------------------------------------------
(* SkBlurMask::BlurGroundTruth, part_001 lines 1426-1570.  The Gaussian window *)
(* and the convolution are float computations; the pixel values they produce   *)
(* are not represented, the buffers that hold them are.                        *)

\* lines 1433-1439: ceil(stddev * 4) | 1 with stddev = radius * fudge / 2
GroundTruthWindowSize(provided_radius) ==
    LET stddev == SkScalarMul(SkScalarMul(provided_radius, kBlurRadiusFudgeFactor), <<1, 2>>)
        n == SkScalarCeil(SkScalarMul(stddev, SkIntToScalar(4)))
    IN  IF n % 2 = 1 THEN n ELSE n + 1

\* GroundTruthPadCopy reading the rows of the source src.fRowBytes apart
GroundTruthPadCopy_RowBytes(src, pad) ==
    LET srcWidth == Width(src.fBounds)
        padWidth == srcWidth + 4 * pad
    IN  IF pad < 0 THEN <<>>
        ELSE [k \in 1..(padWidth * Height(src.fBounds)) |->
                 IF ((k - 1) % padWidth) - 2 * pad \in 0..(srcWidth - 1)
                 THEN Rd(src.data, ((k - 1) \div padWidth) * src.fRowBytes
                                   + ((k - 1) % padWidth) - 2 * pad)
                 ELSE 0]

\* lines 1485-1498: padPixels after the memset and the memcpy of every row y,
\* srcWidth bytes from srcPixels + y * srcWidth to padPixels + y * padWidth + 2 * pad
GroundTruthPadCopy(src, pad) ==
    LET srcWidth == Width(src.fBounds)
        padWidth == srcWidth + 4 * pad
    IN  IF pad < 0 THEN <<>>
        ELSE [k \in 1..(padWidth * Height(src.fBounds)) |->
                 IF ((k - 1) % padWidth) - 2 * pad \in 0..(srcWidth - 1)
                 THEN Rd(src.data, ((k - 1) \div padWidth) * srcWidth
                                   + ((k - 1) % padWidth) - 2 * pad)
                 ELSE 0]

\* the buffers a BlurGroundTruth call leaves: the padded copy of the source it
\* convolved; the blurred bytes themselves are not represented
GroundTruthMem(src, pad) ==
    [dp |-> <<>>, inner |-> <<>>, padPixels |-> GroundTruthPadCopy(src, pad)]

\* lines 1469-1562, entered with src.fImage non-null; gaussWindow is live
GroundTruthImage(dst1, margin1, src, style, windowBad, pad) ==
    LET dstSize == computeImageSize(dst1)
        evsWindow == <<<<"alloc", "gaussWindow">>>>
    IN  IF 0 = dstSize
        THEN Outcome(FALSE, dst1, margin1, evsWindow \o <<<<"free", "gaussWindow">>>>,
                     NoMem, <<>>, Faults(windowBad, FALSE))
        ELSE
        LET dst2 == [dst1 EXCEPT !.fImage = "dp"]
            evsBlur == evsWindow \o <<<<"alloc", "dp">>, <<"alloc", "padPixels">>,
                                      <<"alloc", "tmpImage">>>>
            \* the destructors of tmpImage, padPixels and gaussWindow
            evsExit == <<<<"free", "tmpImage">>, <<"free", "padPixels">>,
                         <<"free", "gaussWindow">>>>
        IN  IF style = "kInner_Style"
            THEN IF 0 = computeImageSize(src)
                 THEN \* return false: autoCall releases dstPixels
                      Outcome(FALSE, dst2, margin1,
                              evsBlur \o <<<<"free", "dp">>>> \o evsExit,
                              GroundTruthMem(src, pad), <<>>, Faults(windowBad, FALSE))
                 ELSE Outcome(TRUE,
                              [dst2 EXCEPT !.fImage = "inner", !.fBounds = src.fBounds,
                                           !.fRowBytes = src.fRowBytes],
                              margin1,
                              evsBlur \o <<<<"alloc", "inner">>, <<"free", "dp">>>> \o evsExit,
                              GroundTruthMem(src, pad), <<>>, Faults(windowBad, FALSE))
            ELSE Outcome(TRUE, dst2, margin1, evsBlur \o evsExit,
                         GroundTruthMem(src, pad), <<>>, Faults(windowBad, FALSE))

BlurGroundTruth(dst0, margin0, src, provided_radius, style, marginPtr) ==
    IF src.fFormat # kA8_Format
    THEN Outcome(FALSE, dst0, margin0, <<>>, NoMem, <<>>, {})
    ELSE
    LET windowSize == GroundTruthWindowSize(provided_radius)
        \* SkAutoTMalloc<float> gaussWindow(windowSize); gaussWindow[halfWindow] = 1
        windowBad == windowSize <= 0
        pad == windowSize \div 2
        margin1 == IF marginPtr THEN <<pad, pad>> ELSE margin0
        dst1 == BlurSetBounds(src, pad, pad)
    IN  IF src.fImage # NULL
        THEN GroundTruthImage(dst1, margin1, src, style, windowBad, pad)
        ELSE Outcome(TRUE,
                     IF style = "kInner_Style"
                     THEN [dst1 EXCEPT !.fBounds = src.fBounds, !.fRowBytes = src.fRowBytes]
                     ELSE dst1,
                     margin1, <<<<"alloc", "gaussWindow">>, <<"free", "gaussWindow">>>>,
                     NoMem, <<>>, Faults(windowBad, FALSE))

-----------------------------------------------------------------------------
(* Inputs offered to the entry points *)

Bounds(l, t, w, h) == [fLeft |-> l, fTop |-> t, fRight |-> l + w, fBottom |-> t + h]

\* an SkMask of the caller: data is the content of fImage, addr its address modulo 4
SrcMask(l, t, w, h, rb, fmt, img, data, addr) ==
    [fBounds |-> Bounds(l, t, w, h), fRowBytes |-> rb, fFormat |-> fmt,
     fImage |-> img, data |-> data, addr |-> addr]

Const(n, v) == [k \in 1..n |-> v]

SrcMasks ==
    { SrcMask(0, 0, 4, 4, 4, kA8_Format, "src", Const(16, 255), 0),
      SrcMask(0, 0, 4, 4, 4, kA8_Format, "src", Const(16, 100), 0),
      SrcMask(1, 2, 3, 2, 4, kA8_Format, "src", <<10, 255, 0, 77, 255, 128, 3, 78>>, 1),
      SrcMask(-1, -1, 1, 1, 1, kA8_Format, "src", <<200>>, 0),
      SrcMask(0, 0, 2, 0, 2, kA8_Format, "src", <<>>, 0),
      SrcMask(0, 0, 4, 4, 4, kA8_Format, NULL, <<>>, 0),
      \* a mask whose blurred image is too big to allocate; the call returns
      \* before it reads a pixel, so the pixels are not represented
      SrcMask(0, 0, 46341, 46341, 46341, kA8_Format, "src", <<>>, 0),
      SrcMask(0, 0, 2, 2, 2, kBW_Format, "src", <<255, 0, 0, 255>>, 0) }

\* an SkRect with corners in units of 1/ScalarDen
Rect(l, t, r, b) ==
    [fLeft |-> <<l, ScalarDen>>, fTop |-> <<t, ScalarDen>>,
     fRight |-> <<r, ScalarDen>>, fBottom |-> <<b, ScalarDen>>]

SrcRects ==
    { Rect(0, 0, 4 * ScalarDen, 4 * ScalarDen),
      Rect(1, 1, 1 + 3 * ScalarDen, 2 * ScalarDen),
      Rect(0, 0, 1, 1),
      Rect(ScalarDen, ScalarDen, ScalarDen, 3 * ScalarDen) }

\* a radius that the fudge factor maps to just below 2 (outerWeight 255 at high quality)
NearTwoRadius == <<45, 13>>

Radii == {<<k, ScalarDen>> : k \in (-ScalarDen)..(MaxRadius * ScalarDen)} \cup {NearTwoRadius}

\* *dst and *margin before a call: values no call stores
Dst0 == [fBounds |-> Bounds(0, 0, 0, 0), fRowBytes |-> 0, fFormat |-> "unset",
         fImage |-> "unset"]
Margin0 == <<-1, -1>>

NoMask == SrcMask(0, 0, 0, 0, 0, kA8_Format, NULL, <<>>, 0)
NoRect == Rect(0, 0, 0, 0)

-----------------------------------------------------------------------------
(* The state machine: a caller sets up the arguments of one call and makes it *)

Init ==
    /\ pc = "idle"
    /\ call = "none"
    /\ args = [src |-> NoMask, rect |-> NoRect, radius |-> <<0, 1>>,
               style |-> "kNormal_Style", quality |-> kLow_Quality,
               marginPtr |-> FALSE, createMode |-> kJustComputeBounds_CreateMode,
               blur |-> <<>>]
    /\ ret = FALSE
    /\ dst = Dst0
    /\ margin = Margin0
    /\ heap = NoHeap
    /\ pixels = NoMem
    /\ calls = <<>>
    /\ fault = {}

\* the caller has a mask to blur
PrepareMask ==
    /\ pc = "idle"
    /\ \E src \in SrcMasks, radius \in Radii, style \in Styles, quality \in Qualities,
          marginPtr \in BOOLEAN :
          args' = [args EXCEPT !.src = src, !.radius = radius, !.style = style,
                               !.quality = quality, !.marginPtr = marginPtr]
    /\ pc' = "mask"
    /\ UNCHANGED <<call, ret, dst, margin, heap, pixels, calls, fault>>

\* the caller has a rectangle to blur
PrepareRect ==
    /\ pc = "idle"
    /\ \E rect \in SrcRects, radius \in Radii, style \in Styles, marginPtr \in BOOLEAN,
          createMode \in CreateModes :
          args' = [args EXCEPT !.rect = rect, !.radius = radius, !.style = style,
                               !.marginPtr = marginPtr, !.createMode = createMode]
    /\ pc' = "rect"
    /\ UNCHANGED <<call, ret, dst, margin, heap, pixels, calls, fault>>

Returned(name, r) ==
    /\ pc' = "done"
    /\ call' = name
    /\ ret' = r.ret
    /\ dst' = r.dst
    /\ margin' = r.margin
    /\ heap' = r.heap
    /\ pixels' = r.mem
    /\ calls' = r.calls
    /\ fault' = r.fault
    /\ UNCHANGED args

CallBlur ==
    /\ pc = "mask"
    /\ Returned("Blur", Blur6(dst, margin, args.src, args.radius, args.style,
                              args.quality, args.marginPtr))

CallBlurSeparable ==
    /\ pc = "mask"
    /\ Returned("BlurSeparable",
                BlurSeparable(dst, margin, args.src, args.radius, args.style,
                              args.quality, args.marginPtr))

CallBlurGroundTruth ==
    /\ pc = "mask"
    /\ Returned("BlurGroundTruth",
                BlurGroundTruth(dst, margin, args.src, args.radius, args.style,
                                args.marginPtr))

CallBlurRect ==
    /\ pc = "rect"
    /\ Returned("BlurRect",
                BlurRect(dst, margin, args.rect, args.radius, args.style,
                         args.marginPtr, args.createMode))

Next ==
    \/ PrepareMask
    \/ PrepareRect
    \/ CallBlur
    \/ CallBlurSeparable
    \/ CallBlurGroundTruth
    \/ CallBlurRect

Spec == Init /\ [][Next]_vars

-----------------------------------------------------------------------------
(* The style post-processing on its own: one row holding every source value *)
(* against a blurred row holding one value, as Blur hands them over.         *)

Ramp == [k \in 1..256 |-> k - 1]

PrepareStyle ==
    /\ pc = "idle"
    /\ \E d \in 0..255, style \in Styles \ {"kNormal_Style"} :
          args' = [args EXCEPT !.src = SrcMask(0, 0, 256, 1, 256, kA8_Format, "src", Ramp, 0),
                               !.blur = Const(256, d), !.style = style]
    /\ pc' = "style"
    /\ UNCHANGED <<call, ret, dst, margin, heap, pixels, calls, fault>>

\* lines 1153-1157
CallMerge ==
    /\ pc = "style"
    /\ args.style = "kInner_Style"
    /\ LET m == merge_src_with_blur(NewBuf(256), args.src.fRowBytes, args.src.data,
                                    args.src.fRowBytes, args.blur, 0, 256, 256, 1)
       IN  /\ pixels' = [dp |-> args.blur, inner |-> m.buf]
           /\ fault' = Faults(m.bad, FALSE)
    /\ pc' = "done"
    /\ call' = "merge_src_with_blur"
    /\ UNCHANGED <<args, ret, dst, margin, heap, calls>>

\* lines 1160-1161
CallClamp ==
    /\ pc = "style"
    /\ args.style # "kInner_Style"
    /\ LET c == clamp_with_orig(args.blur, 0, 256, args.src.data, args.src.fRowBytes,
                                256, 1, args.style)
       IN  /\ pixels' = [dp |-> c.buf, inner |-> <<>>]
           /\ fault' = Faults(c.bad, FALSE)
    /\ pc' = "done"
    /\ call' = "clamp_with_orig"
    /\ UNCHANGED <<args, ret, dst, margin, heap, calls>>

NextStyle == PrepareStyle \/ CallMerge \/ CallClamp

SpecStyle == Init /\ [][NextStyle]_vars

-----------------------------------------------------------------------------
(* boxBlur and boxBlurInterp called on their own, on rows of every width up   *)
(* to MaxRowWidth with every radius up to MaxBoxRadius, so that width <       *)
(* diameter, width >= diameter and the loops unrolled by 16 all occur.        *)

MaxRowWidth == 20
MaxBoxRadius == 9

RowPatterns == {"ramp", "bump", "tail", "opaque"}

\* a row of w pixels: "ramp" has no symmetry, "bump" is symmetric and not
\* constant, "tail" is 0 except for its last pixel, "opaque" is 255 throughout
RowOf(p, w) ==
    [i \in 1..w |-> CASE p = "ramp" -> (37 * i + 11) % 256
                      [] p = "bump" -> (60 * SkMin32(i, w + 1 - i) + 7) % 256
                      [] p = "opaque" -> 255
                      [] OTHER -> IF i = w THEN 255 ELSE 0]

Reverse(row) == [i \in 1..Len(row) |-> row[Len(row) + 1 - i]]

\* height rows of width pixels, src_y_stride = width; the second row is the
\* first one reversed
RowsOf(p, w, h) == IF h = 1 THEN RowOf(p, w) ELSE RowOf(p, w) \o Reverse(RowOf(p, w))

\* <<height, transpose>> of the calls made
RowShapes == {<<1, FALSE>>, <<2, TRUE>>}

\* the values of the uint8_t parameter outer_weight that are tried
OuterWeights == {0, 127, 128, 255}

\* the widths of the destination rows a caller of boxBlur provides: the one
\* the comment above boxBlur asks for and the one boxBlur returns
DstWidths(w, l, r) == {w + l + r, w + SkMax32(l, r) * 2}

\* the caller has rows for boxBlur(src, width, dst, leftRadius, rightRadius, width, height, transpose)
\* and a destination of dstWidth * height bytes
PrepareBox ==
    /\ pc = "idle"
    /\ \E p \in RowPatterns, w \in 0..MaxRowWidth, sh \in RowShapes,
          l \in 0..MaxBoxRadius, r \in 0..MaxBoxRadius :
          \E dw \in DstWidths(w, l, r) :
              args' = [src |-> RowsOf(p, w, sh[1]), width |-> w, height |-> sh[1],
                       transpose |-> sh[2], leftRadius |-> l, rightRadius |-> r,
                       radius |-> 0, outer_weight |-> 255, dstWidth |-> dw]
    /\ pc' = "box"
    /\ UNCHANGED <<call, ret, dst, margin, heap, pixels, calls, fault>>

\* the caller has rows for boxBlurInterp(src, width, dst, radius, width, height, transpose, outer_weight)
PrepareInterp ==
    /\ pc = "idle"
    /\ \E p \in RowPatterns, w \in 0..MaxRowWidth, sh \in RowShapes,
          rad \in 0..MaxBoxRadius, ow \in OuterWeights :
          args' = [src |-> RowsOf(p, w, sh[1]), width |-> w, height |-> sh[1],
                   transpose |-> sh[2], leftRadius |-> rad, rightRadius |-> rad,
                   radius |-> rad, outer_weight |-> ow, dstWidth |-> w + 2 * rad]
    /\ pc' = "interp"
    /\ UNCHANGED <<call, ret, dst, margin, heap, pixels, calls, fault>>

\* what a call of boxBlur or boxBlurInterp leaves behind: dst, the value
\* returned, and whether the SkASSERT on the sums failed, memory was misused
\* or a pixel's fixed-point expression wrapped
BoxReturned(name, b) ==
    /\ pixels' = [dp |-> b.buf, inner |-> <<>>]
    /\ ret' = b.width
    /\ fault' = Faults(b.bad, ~b.sumZero) \cup Overflow(b.wrap)
    /\ call' = name
    /\ pc' = "done"
    /\ UNCHANGED <<args, dst, margin, heap, calls>>

\* boxBlur into the caller's destination of dstWidth * height bytes
CallBoxBlur ==
    /\ pc = "box"
    /\ BoxReturned("boxBlur",
                   boxBlur(args.src, args.width, NewBuf(args.dstWidth * args.height),
                           args.leftRadius, args.rightRadius, args.width, args.height,
                           args.transpose))

\* boxBlurInterp into a destination of (width + 2 * radius) * height bytes
CallBoxBlurInterp ==
    /\ pc = "interp"
    /\ BoxReturned("boxBlurInterp",
                   boxBlurInterp(args.src, args.width,
                                 NewBuf(args.dstWidth * args.height),
                                 args.radius, args.width, args.height, args.transpose,
                                 args.outer_weight))

NextBox == PrepareBox \/ PrepareInterp \/ CallBoxBlur \/ CallBoxBlurInterp

SpecBox == Init /\ [][NextBox]_vars

-----------------------------------------------------------------------------
(* build_sum_buffer and the kernels that read it called on their own: every  *)
(* source size up to MaxSumW x MaxSumH, with and without padding after each  *)
(* row, at every alignment of src, then each kernel and its clamped variant  *)
(* on the table built.                                                       *)

MaxSumW == 5
MaxSumH == 4
MaxKernelRadius == 3

SumPatterns == {"opaque", "ramp"}

\* the byte that fills the srcRB - srcW bytes after the pixels of a row
PadByte == 99

\* the srcRB * srcH bytes of a source of srcW x srcH pixels
SumSrc(p, srcW, srcH, srcRB) ==
    [k \in 1..(srcRB * srcH) |->
        LET x == (k - 1) % srcRB
            y == (k - 1) \div srcRB
        IN  IF x >= srcW THEN PadByte
            ELSE IF p = "opaque" THEN 255
            ELSE (37 * (y * srcW + x) + 11) % 256]

\* <<rx, ry>> of the kernels that are called
KernelRadii == UNION {{<<rx, 1>>, <<rx, rx>>} : rx \in 0..MaxKernelRadius}

\* the values of outerWeight that are tried
KernelOuterWeights == {0, 127, 128, 255}

\* the caller has a source for build_sum_buffer(sum, srcW, srcH, src, srcRB)
PrepareSum ==
    /\ pc = "idle"
    /\ \E p \in SumPatterns, srcW \in 0..MaxSumW, srcH \in 0..MaxSumH,
          rowPad \in 0..1, addr \in 0..3 :
          args' = [src |-> SumSrc(p, srcW, srcH, srcW + rowPad), srcW |-> srcW,
                   srcH |-> srcH, srcRB |-> srcW + rowPad, addr |-> addr,
                   rx |-> 0, ry |-> 0, outerWeight |-> 255]
    /\ pc' = "sum"
    /\ UNCHANGED <<call, ret, dst, margin, heap, pixels, calls, fault>>

\* build_sum_buffer into a table of (srcW + 1) * (srcH + 1) entries
CallBuildSumBuffer ==
    /\ pc = "sum"
    /\ LET b == build_sum_buffer(NewBuf((args.srcW + 1) * (args.srcH + 1)), args.srcW,
                                 args.srcH, args.src, args.srcRB, args.addr)
       IN  /\ pixels' = [sum |-> b.buf, dp |-> <<>>, inner |-> <<>>]
           /\ fault' = Faults(b.bad, args.srcRB < args.srcW)
    /\ call' = "build_sum_buffer"
    /\ pc' = "built"
    /\ UNCHANGED <<args, ret, dst, margin, heap, calls>>

\* the caller chooses the radii of apply_kernel
PrepareKernel ==
    /\ pc = "built"
    /\ \E r \in KernelRadii : args' = [args EXCEPT !.rx = r[1], !.ry = r[2]]
    /\ pc' = "kernel"
    /\ UNCHANGED <<call, ret, dst, margin, heap, pixels, calls, fault>>

\* the caller chooses the radii and the weight of apply_kernel_interp, which
\* asserts rx > 0 && ry > 0
PrepareKernelInterp ==
    /\ pc = "built"
    /\ \E r \in KernelRadii, ow \in KernelOuterWeights :
          /\ r[1] > 0
          /\ r[2] > 0
          /\ args' = [args EXCEPT !.rx = r[1], !.ry = r[2], !.outerWeight = ow]
    /\ pc' = "kernelInterp"
    /\ UNCHANGED <<call, ret, dst, margin, heap, pixels, calls, fault>>

\* what a kernel leaves behind in the buffer named to
KernelReturned(name, to, k, assertFailed) ==
    /\ pixels' = [pixels EXCEPT ![to] = k.buf]
    /\ calls' = Append(calls, [fn |-> name, clamped |-> k.clamped])
    /\ fault' = fault \cup Faults(k.bad, assertFailed) \cup Overflow(k.wrap)
    /\ call' = name
    /\ UNCHANGED <<args, ret, dst, margin, heap>>

\* the destination of (sw + 2 * rx) * (sh + 2 * ry) bytes of a kernel
KernelDst == NewBuf((args.srcW + 2 * args.rx) * (args.srcH + 2 * args.ry))

CallApplyKernel ==
    /\ pc = "kernel"
    /\ KernelReturned("apply_kernel", "dp",
                      apply_kernel(KernelDst, args.rx, args.ry, pixels.sum,
                                   args.srcW, args.srcH), FALSE)
    /\ pc' = "applied"

\* kernel_clamped on the same table into a second buffer; its
\* SkASSERT(2*rx > sw) fails when apply_kernel would not have called it
CallKernelClamped ==
    /\ pc = "applied"
    /\ KernelReturned("kernel_clamped", "inner",
                      kernel_clamped(KernelDst, args.rx, args.ry, pixels.sum,
                                     args.srcW, args.srcH),
                      ~(2 * args.rx > args.srcW))
    /\ pc' = "done"

CallApplyKernelInterp ==
    /\ pc = "kernelInterp"
    /\ KernelReturned("apply_kernel_interp", "dp",
                      apply_kernel_interp(KernelDst, args.rx, args.ry, pixels.sum,
                                          args.srcW, args.srcH, args.outerWeight), FALSE)
    /\ pc' = "appliedInterp"

\* kernel_interp_clamped on the same table into a second buffer
CallKernelInterpClamped ==
    /\ pc = "appliedInterp"
    /\ KernelReturned("kernel_interp_clamped", "inner",
                      kernel_interp_clamped(KernelDst, args.rx, args.ry, pixels.sum,
                                            args.srcW, args.srcH, args.outerWeight),
                      ~(2 * args.rx > args.srcW))
    /\ pc' = "done"

NextSum ==
    \/ PrepareSum
    \/ CallBuildSumBuffer
    \/ PrepareKernel
    \/ PrepareKernelInterp
    \/ CallApplyKernel
    \/ CallKernelClamped
    \/ CallApplyKernelInterp
    \/ CallKernelInterpClamped

SpecSum == Init /\ [][NextSum]_vars

-----------------------------------------------------------------------------
(* The blend weights that boxBlurInterp (lines 338-340) and                 *)
(* apply_kernel_interp (lines 821-825) derive from the weight Blur passes,   *)
(* for every value a uint8_t holds.                                          *)

PrepareWeight ==
    /\ pc = "idle"
    /\ \E ow \in 0..255 : args' = [outerWeight |-> ow]
    /\ pc' = "weight"
    /\ UNCHANGED <<call, ret, dst, margin, heap, pixels, calls, fault>>

\* ret holds <<outer, inner>> as each of the two functions adjusts them
CallInterpWeights ==
    /\ pc = "weight"
    /\ ret' = [box |-> <<InterpOuterWeight(args.outerWeight),
                         InterpInnerWeight(args.outerWeight)>>,
               kernel |-> <<KernelOuterWeight(args.outerWeight),
                            KernelInnerWeight(args.outerWeight)>>]
    /\ call' = "weights"
    /\ pc' = "done"
    /\ UNCHANGED <<args, dst, margin, heap, pixels, calls, fault>>

NextWeights == PrepareWeight \/ CallInterpWeights

SpecWeights == Init /\ [][NextWeights]_vars

\* every function that scales a sum to a byte, called on its own
NextKernels == NextBox \/ NextSum

SpecKernels == Init /\ [][NextKernels]_vars

-----------------------------------------------------------------------------
(* Properties *)

IsBlurCall == pc = "done" /\ call \in {"Blur", "BlurSeparable"}
RadiusPositive == SkScalarLT(SkIntToScalar(0), args.radius)
SrcHasImage == args.src.fImage # NULL
SrcW == Width(args.src.fBounds)
SrcH == Height(args.src.fBounds)

\* high quality is in effect: asked for, and the radius is at least 3
HighInEffect == args.quality = kHigh_Quality /\ ~SkScalarLT(args.radius, SkIntToScalar(3))

\* ceil of the radius of one pass, scaled by 1/sqrt(3) or not
CeilPassRadius(scaled) ==
    IF scaled THEN SkScalarCeil(SkScalarMul(args.radius, kBlurRadiusFudgeFactor))
    ELSE SkScalarCeil(args.radius)

\* the margin p = passCount * ceil(passRadius)
ExpectedPad == IF HighInEffect THEN 3 * CeilPassRadius(TRUE) ELSE CeilPassRadius(FALSE)

Outset(b, p) == [fLeft |-> b.fLeft - p, fTop |-> b.fTop - p,
                 fRight |-> b.fRight + p, fBottom |-> b.fBottom + p]

BlurGrowsByMargin ==
    (IsBlurCall /\ ret = TRUE /\ args.style # "kInner_Style")
    => /\ args.marginPtr => margin = <<ExpectedPad, ExpectedPad>>
       /\ dst.fBounds = Outset(args.src.fBounds, ExpectedPad)
       /\ dst.fRowBytes = Width(dst.fBounds)
       /\ dst.fFormat = kA8_Format
       /\ (SrcW = 4 /\ SrcH = 4 /\ args.radius = <<ScalarDen, ScalarDen>>
           /\ args.quality = kLow_Quality)
          => /\ Width(dst.fBounds) = 6
             /\ Height(dst.fBounds) = 6
             /\ args.marginPtr => margin = <<1, 1>>

BlurGrowsByMarginWitness ==
    /\ IsBlurCall
    /\ ret = TRUE
    /\ args.style = "kSolid_Style"
    /\ SrcHasImage
    /\ SrcW = 4
    /\ SrcH = 4
    /\ args.radius = <<ScalarDen, ScalarDen>>
    /\ args.quality = kLow_Quality
    /\ margin = <<1, 1>>
    /\ Width(dst.fBounds) = 6

PassesOnAxis(a) == Cardinality({i \in 1..Len(calls) : calls[i].axis = a})

\* n passes per axis: n in x and n in y, or n two-dimensional kernel passes
PassesPerAxis(n) ==
    \/ PassesOnAxis("x") = n /\ PassesOnAxis("y") = n /\ PassesOnAxis("xy") = 0
    \/ PassesOnAxis("x") = 0 /\ PassesOnAxis("y") = 0 /\ PassesOnAxis("xy") = n

\* a call with 3 passes of the scaled radius, or with 1 pass of the unscaled one
PassesAre(three) ==
    /\ PassesPerAxis(IF three THEN 3 ELSE 1)
    /\ \A i \in 1..Len(calls) : calls[i].hi = CeilPassRadius(three)
    /\ args.marginPtr =>
          margin = <<(IF three THEN 3 ELSE 1) * CeilPassRadius(three),
                     (IF three THEN 3 ELSE 1) * CeilPassRadius(three)>>

\* C3 as stated: for every radius > 0, high quality makes 3 passes per axis
\* with the pass radius scaled by 1/sqrt(3) and margin 3 * ceil(passRadius),
\* and low quality makes exactly 1 pass per axis with the unscaled radius.
BlurQualityPassesAsStated ==
    (IsBlurCall /\ ret = TRUE /\ SrcHasImage /\ RadiusPositive)
    => PassesAre(args.quality = kHigh_Quality)

\* C3 amended: high quality makes 3 scaled passes per axis when the radius is
\* at least 3; low quality, and high quality asked for a radius below 3, make
\* exactly 1 pass per axis with the unscaled radius.
BlurQualityPasses ==
    (IsBlurCall /\ ret = TRUE /\ SrcHasImage /\ RadiusPositive)
    => PassesAre(HighInEffect)

BlurQualityPassesWitness ==
    /\ IsBlurCall
    /\ ret = TRUE
    /\ SrcHasImage
    /\ args.quality = kHigh_Quality
    /\ args.radius = <<3 * ScalarDen, ScalarDen>>
    /\ PassesOnAxis("x") = 3
    /\ PassesOnAxis("y") = 3

\* C4: whenever Blur, BlurRect or BlurGroundTruth returns false (from a call
\* with a positive radius that stayed inside its buffers), no buffer allocated
\* by the call is still allocated.
NoAllocationSurvivesFailure ==
    (pc = "done" /\ call \in {"Blur", "BlurSeparable", "BlurRect", "BlurGroundTruth"}
     /\ RadiusPositive /\ ret = FALSE /\ fault = {})
    => \A n \in BufNames : heap[n] # "live"

\* C5: whenever Blur returns true for a source that has pixels, dst->fImage is
\* a live buffer of dst->computeImageSize() bytes in which every pixel inside
\* the bounds of dst has been written.
BlurImageComplete ==
    (IsBlurCall /\ ret = TRUE /\ SrcHasImage)
    => /\ dst.fImage \in {"dp", "inner"}
       /\ heap[dst.fImage] = "live"
       /\ Len(pixels[dst.fImage]) = computeImageSize(dst)
       /\ computeImageSize(dst) > 0
       /\ \A y \in 0..(Height(dst.fBounds) - 1), x \in 0..(Width(dst.fBounds) - 1) :
             pixels[dst.fImage][y * dst.fRowBytes + x + 1] \in 0..255

BlurImageCompleteWitness ==
    /\ IsBlurCall
    /\ call = "BlurSeparable"
    /\ ret = TRUE
    /\ SrcHasImage
    /\ SrcW = 1
    /\ args.radius = <<2 * ScalarDen, ScalarDen>>
    /\ args.style = "kNormal_Style"
    /\ Len(pixels.dp) = 25

\* the image a normal-style call with the same arguments leaves in dp
NormalBlur ==
    Blur(Dst0, Margin0, args.src, args.radius, "kNormal_Style", args.quality, TRUE,
         call = "BlurSeparable").mem.dp

\* C6: a successful inner-style Blur returns the bounds and rowBytes of the
\* source and an image of the source's image size, whose pixel (x, y) is
\* blur * (src + 1) >> 8 of the source pixel (x, y) and the pixel
\* (x + padx, y + pady) of the enlarged blurred image, (padx, pady) being the
\* reported margin.
InnerStyleResult ==
    (IsBlurCall /\ ret = TRUE /\ SrcHasImage /\ args.style = "kInner_Style")
    => LET blurred == NormalBlur
           p == ExpectedPad
       IN  /\ dst.fBounds = args.src.fBounds
           /\ dst.fRowBytes = args.src.fRowBytes
           /\ dst.fImage = "inner"
           /\ Len(pixels.inner) = computeImageSize(args.src)
           /\ args.marginPtr => margin = <<p, p>>
           /\ pixels.dp = blurred
           /\ \A y \in 0..(SrcH - 1), x \in 0..(SrcW - 1) :
                 pixels.inner[y * args.src.fRowBytes + x + 1] =
                    (pixels.dp[(y + p) * (SrcW + 2 * p) + x + p + 1]
                     * (args.src.data[y * args.src.fRowBytes + x + 1] + 1)) \div 256

InnerStyleResultWitness ==
    /\ IsBlurCall
    /\ ret = TRUE
    /\ SrcHasImage
    /\ args.style = "kInner_Style"
    /\ args.src.fRowBytes > SrcW
    /\ args.marginPtr
    /\ margin = <<2, 2>>
    /\ \E k \in 1..Len(pixels.inner) : pixels.inner[k] > 0

\* C7: for inner style every output pixel is at most the source pixel at the
\* same position, for all source values 0..255 and all blurred values 0..255.
InnerAtMostSource ==
    (pc = "done" /\ call = "merge_src_with_blur")
    => \A k \in 1..256 :
          /\ pixels.inner[k] <= args.src.data[k]
          /\ pixels.inner[k] = (args.blur[k] * (args.src.data[k] + 1)) \div 256

InnerAtMostSourceWitness ==
    /\ pc = "done"
    /\ call = "merge_src_with_blur"
    /\ args.blur[1] = 255
    /\ pixels.inner[256] = 255

\* round(s * d / 255)
RoundDiv255(s, d) == (2 * s * d + 255) \div 510

\* C8: for solid style every output pixel inside the source rectangle is
\* s + d - round(s * d / 255), which is at least the blurred value d, at least
\* the source pixel s, at most 255, and 255 wherever the source pixel is 255.
SolidAtLeastBlur ==
    (pc = "done" /\ call = "clamp_with_orig" /\ args.style = "kSolid_Style")
    => \A k \in 1..256 :
          LET s == args.src.data[k]
              d == args.blur[k]
          IN  /\ pixels.dp[k] = s + d - RoundDiv255(s, d)
              /\ pixels.dp[k] >= d
              /\ pixels.dp[k] >= s
              /\ pixels.dp[k] <= 255
              /\ s = 255 => pixels.dp[k] = 255

SolidAtLeastBlurWitness ==
    /\ pc = "done"
    /\ call = "clamp_with_orig"
    /\ args.style = "kSolid_Style"
    /\ args.blur[1] = 128
    /\ pixels.dp[129] > 128
    /\ pixels.dp[256] = 255

\* C9: for outer style every output pixel at a position where the source
\* pixel is 255 is 0, whatever the blurred value was.
OuterZeroWhereOpaque ==
    (pc = "done" /\ call = "clamp_with_orig" /\ args.style = "kOuter_Style")
    => \A k \in 1..256 : args.src.data[k] = 255 => pixels.dp[k] = 0

OuterZeroWhereOpaqueWitness ==
    /\ pc = "done"
    /\ call = "clamp_with_orig"
    /\ args.style = "kOuter_Style"
    /\ args.blur[256] = 255
    /\ pixels.dp[256] = 0
    /\ pixels.dp[1] = 255

\* every pixel inside the bounds of the source holds v
IsConstMask(m, v) ==
    /\ Width(m.fBounds) > 0
    /\ Height(m.fBounds) > 0
    /\ \A y \in 0..(Height(m.fBounds) - 1), x \in 0..(Width(m.fBounds) - 1) :
          m.data[y * m.fRowBytes + x + 1] = v

\* C10: blurring a mask whose pixels all equal V with style normal returns V
\* at every output pixel that lies at least the blur extent away from the
\* edges of the source, through the 6-argument Blur and through BlurSeparable.
ConstantMaskInteriorKept ==
    (IsBlurCall /\ ret = TRUE /\ SrcHasImage /\ args.style = "kNormal_Style")
    => \A v \in 0..255 :
          IsConstMask(args.src, v)
          => \A y \in ExpectedPad..(SrcH - 1 - ExpectedPad),
                x \in ExpectedPad..(SrcW - 1 - ExpectedPad) :
                pixels.dp[(y + ExpectedPad) * dst.fRowBytes + x + ExpectedPad + 1] = v

\* the call blurs the 4x4 all-255 mask with radius 1, low quality, normal style
IsOpaque4x4Radius1 ==
    /\ IsBlurCall
    /\ ret = TRUE
    /\ args.src = SrcMask(0, 0, 4, 4, 4, kA8_Format, "src", Const(16, 255), 0)
    /\ args.radius = <<ScalarDen, ScalarDen>>
    /\ args.quality = kLow_Quality
    /\ args.style = "kNormal_Style"

\* the number of the 4 source columns under the 3-wide window of output column x
Overlap4(x) == SkMin32(x, 3) - SkMax32(x - 2, 0) + 1

\* pixel (x, y) of the 6x6 result
Out6(x, y) == pixels.dp[y * 6 + x + 1]

\* C11 as stated: the corner pixel (0,0) of the 6x6 output equals
\* 255 * (2*2) / (3*3) rounded, i.e. 113.
CornerIsFourNinths ==
    IsOpaque4x4Radius1 => Out6(0, 0) = (2 * 255 * (2 * 2) + 3 * 3) \div (2 * 3 * 3)

\* C11: for the 4x4 all-255 mask blurred with radius 1, low quality, normal
\* style, every pixel of the 6x6 output is within 1 of 255 times the fraction
\* of its 3x3 window that overlaps the source; the window of the corner (0,0)
\* overlaps one source pixel, so the corner is 255 * 1 / 9 = 28, and the
\* pixel whose window overlaps 2x2 source pixels is (1,1), which is 113.
CornerCoverage ==
    IsOpaque4x4Radius1
    => /\ Len(pixels.dp) = 36
       /\ Out6(0, 0) = 28
       /\ Out6(1, 1) = 113
       /\ \A y \in 0..5, x \in 0..5 :
             LET exact9 == 255 * Overlap4(x) * Overlap4(y)
                 v == Out6(x, y)
             IN  9 * v - exact9 <= 9 /\ exact9 - 9 * v <= 9

CornerCoverageWitness ==
    /\ IsOpaque4x4Radius1
    /\ call = "Blur"
    /\ Out6(0, 0) = 28
    /\ Out6(5, 5) = 28

\* the radius of the call is an integer >= 1
RadiusIsInteger == args.radius[1] >= args.radius[2] /\ args.radius[1] % args.radius[2] = 0

\* a and b have the same length and differ by at most 1 at every position
WithinOne(a, b) ==
    /\ Len(a) = Len(b)
    /\ \A k \in 1..Len(a) : a[k] - b[k] <= 1 /\ b[k] - a[k] <= 1

\* a low-quality 6-argument Blur (summed-area path) of a source with pixels
IsLowSumBufferBlur ==
    /\ pc = "done"
    /\ call = "Blur"
    /\ ret = TRUE
    /\ args.quality = kLow_Quality
    /\ RadiusIsInteger
    /\ SrcHasImage
    /\ SrcW > 0
    /\ SrcH > 0

\* C12: for low quality and an integer radius r >= 1, the summed-area-table
\* path (the 6-argument Blur) and the separable path (BlurSeparable) give
\* outputs of the same dimensions whose pixels differ by at most 1 at every
\* position, for every source mask with pixels.
SumBufferMatchesSeparable ==
    IsLowSumBufferBlur
    => LET sep == BlurSeparable(Dst0, Margin0, args.src, args.radius, args.style,
                                args.quality, args.marginPtr)
       IN  /\ sep.ret = TRUE
           /\ sep.dst.fBounds = dst.fBounds
           /\ sep.dst.fRowBytes = dst.fRowBytes
           /\ sep.margin = margin
           /\ WithinOne(sep.mem.dp, pixels.dp)
           /\ WithinOne(sep.mem.inner, pixels.inner)

\* the two paths are compared on a mask of varied pixels, where the blurred
\* bytes are neither all 0 nor all 255
SumBufferMatchesSeparableWitness ==
    /\ IsLowSumBufferBlur
    /\ args.style = "kNormal_Style"
    /\ Width(args.src.fBounds) = 3
    /\ args.radius = <<2 * ScalarDen, ScalarDen>>
    /\ \E k \in 1..Len(pixels.dp) : pixels.dp[k] \notin {0, 255}
    /\ calls = <<CallRec("apply_kernel", "xy", 2, 2, 3, 2)>>

\* a BlurRect call made with createMode kJustComputeBounds has returned
IsJustComputeBounds ==
    /\ pc = "done"
    /\ call = "BlurRect"
    /\ args.createMode = kJustComputeBounds_CreateMode

\* C13: BlurRect called with createMode kJustComputeBounds returns true with
\* dst->fImage NULL, having allocated nothing and computed no pixel, and
\* leaves the bounds and rowBytes of dst and the margin equal to those that a
\* call rendering the image returns for the same rectangle, radius and style.
JustComputeBoundsAgrees ==
    IsJustComputeBounds
    => /\ ret = TRUE
       /\ dst.fImage = NULL
       /\ heap = NoHeap
       /\ pixels = NoMem
       /\ LET full == BlurRect(Dst0, Margin0, args.rect, args.radius, args.style,
                               args.marginPtr, kComputeBoundsAndRenderImage_CreateMode)
          IN  full.ret = TRUE
              => /\ full.dst.fBounds = dst.fBounds
                 /\ full.dst.fRowBytes = dst.fRowBytes
                 /\ full.dst.fFormat = dst.fFormat
                 /\ full.margin = margin

\* bounds only, for an inner-style rectangle whose rendering call succeeds and
\* reports a margin
JustComputeBoundsAgreesWitness ==
    /\ IsJustComputeBounds
    /\ args.style = "kInner_Style"
    /\ args.marginPtr
    /\ margin[1] > 0
    /\ Width(dst.fBounds) > 0
    /\ BlurRect(Dst0, Margin0, args.rect, args.radius, args.style, args.marginPtr,
                kComputeBoundsAndRenderImage_CreateMode).ret = TRUE

\* C14: BlurGroundTruth and BlurRect, like Blur, return false without
\* allocating anything when the requested radius is <= 0 (in a call that
\* stayed inside its buffers).
NonPositiveRadiusRejected ==
    (pc = "done" /\ call \in {"BlurRect", "BlurGroundTruth"} /\ ~RadiusPositive
     /\ fault = {})
    => ret = FALSE /\ heap = NoHeap

IsBoxBlurCall == pc = "done" /\ call = "boxBlur"
IsBoxBlurInterpCall == pc = "done" /\ call = "boxBlurInterp"

\* some pixel of the source rows is not 0
SrcNotBlank == \E k \in 1..Len(args.src) : args.src[k] # 0

\* C15: in boxBlur, for every width >= 0, all leftRadius, rightRadius >= 0 and
\* every row content, the running sum is 0 after the last output of each row:
\* SkASSERT(sum == 0) never fails, whether width < diameter or width >= diameter.
BoxSumZero == IsBoxBlurCall => "assert" \notin fault

\* a call with unequal radii and width < diameter on rows that are not blank
BoxSumZeroWitness ==
    /\ IsBoxBlurCall
    /\ args.width = 3
    /\ args.leftRadius = 2
    /\ args.rightRadius = 5
    /\ args.height = 2
    /\ SrcNotBlank
    /\ "assert" \notin fault

BoxOut(y, j) ==
    LET dst_x_stride == IF args.transpose THEN args.height ELSE 1
        dst_y_stride == IF args.transpose THEN 1 ELSE ret
    IN  pixels.dp[y * dst_y_stride + j * dst_x_stride + 1]

\* pixel i of source row y
BoxSrc(y, i) == args.src[y * args.width + i + 1]

SrcRowsSymmetric ==
    \A y \in 0..(args.height - 1) : \A i \in 0..(args.width - 1) :
        BoxSrc(y, i) = BoxSrc(y, args.width - 1 - i)

OutRowsSymmetric ==
    \A y \in 0..(args.height - 1) : \A j \in 0..(ret - 1) :
        BoxOut(y, j) = BoxOut(y, ret - 1 - j)

\* C17: boxBlur with leftRadius == rightRadius on rows that read the same
\* from both ends writes rows that read the same from both ends, and so does
\* boxBlurInterp.
SymmetricRowsStaySymmetric ==
    /\ (IsBoxBlurCall /\ args.leftRadius = args.rightRadius /\ SrcRowsSymmetric)
           => OutRowsSymmetric
    /\ (IsBoxBlurInterpCall /\ SrcRowsSymmetric) => OutRowsSymmetric

\* an interpolated blur of a symmetric row narrower than the diameter whose
\* output is not constant
SymmetricRowsStaySymmetricWitness ==
    /\ IsBoxBlurInterpCall
    /\ args.radius = 3
    /\ args.width = 5
    /\ args.outer_weight = 128
    /\ SrcRowsSymmetric
    /\ BoxSrc(0, 0) # BoxSrc(0, 2)
    /\ BoxOut(0, 0) # BoxOut(0, 4)
    /\ OutRowsSymmetric

\* every byte of the destination was stored by the call
DstFilled == \A k \in 1..Len(pixels.dp) : pixels.dp[k] # Uninit

RECURSIVE WindowSum(_, _, _)
WindowSum(y, lo, hi) ==
    IF SkMax32(lo, 0) > SkMin32(hi, args.width - 1) THEN 0
    ELSE BoxSrc(y, SkMax32(lo, 0)) + WindowSum(y, SkMax32(lo, 0) + 1, hi)

\* C19: for leftRadius == rightRadius == r, column j of every output row of
\* boxBlur, 0 <= j < width + 2r, is (S_j * scale + half) >> 24 with S_j the sum
\* of the zero-padded source row over [j - 2r, j] and scale = floor(2^24 / (2r + 1)),
\* for width >= 2r and width < 2r, through the unrolled loops as well.
BoxIsWindowAverage ==
    (IsBoxBlurCall /\ args.leftRadius = args.rightRadius) =>
        /\ ret = args.width + 2 * args.rightRadius
        /\ \A y \in 0..(args.height - 1) : \A j \in 0..(ret - 1) :
               BoxOut(y, j) = MulAddShr24(WindowSum(y, j - 2 * args.rightRadius, j),
                                          16777216 \div (2 * args.rightRadius + 1),
                                          0, 0, 8388608)

\* width 17 < diameter 18, so LEFT_BORDER_ITER and RIGHT_BORDER_ITER run once
\* through their 16-fold unrolled loops and once through the plain ones
BoxIsWindowAverageWitness ==
    /\ IsBoxBlurCall
    /\ args.leftRadius = 9
    /\ args.rightRadius = 9
    /\ args.width = 17
    /\ args.height = 2
    /\ ret = 35
    /\ BoxSrc(0, 0) = 48
    /\ BoxOut(0, 0) = 3
    /\ BoxOut(0, 1) = 7
    /\ BoxOut(0, 17) = BoxOut(0, 16)
    /\ fault = {}

\* C20: for radius r >= 1, column j of every output row of boxBlurInterp,
\* 0 <= j < width + 2r, is (O_j * outer_scale + I_j * inner_scale + half) >> 24
\* with O_j the sum of the zero-padded source row over [j - 2r, j] and I_j the
\* sum over [j - 2r + 1, j - 1], for every width, width < 2r included.
InterpIsBlendOfWindows ==
    (IsBoxBlurInterpCall /\ args.radius >= 1) =>
        /\ ret = args.width + 2 * args.radius
        /\ \A y \in 0..(args.height - 1) : \A j \in 0..(ret - 1) :
               BoxOut(y, j) =
                   MulAddShr24(WindowSum(y, j - 2 * args.radius, j),
                               CDiv(InterpOuterWeight(args.outer_weight) * 65536,
                                    2 * args.radius + 1),
                               WindowSum(y, j - 2 * args.radius + 1, j - 1),
                               CDiv(InterpInnerWeight(args.outer_weight) * 65536,
                                    2 * args.radius - 1),
                               8388608)

\* the table is the one build_sum_buffer left
IsSumBuilt == pc = "built" /\ call = "build_sum_buffer"

\* entry [y][x] of the table, whose stride is srcW + 1
SumAt(y, x) == pixels.sum[y * (args.srcW + 1) + x + 1]

\* the sum of the pixels of source row y in columns x0..x1-1, read with stride srcRB
RECURSIVE SrcRowSum(_, _, _)
SrcRowSum(y, x0, x1) ==
    IF x0 >= x1 THEN 0
    ELSE args.src[y * args.srcRB + x0 + 1] + SrcRowSum(y, x0 + 1, x1)

\* the sum of the source pixels in rows y0..y1-1 and columns x0..x1-1
RECURSIVE SrcRectSum(_, _, _, _)
SrcRectSum(y0, y1, x0, x1) ==
    IF y0 >= y1 THEN 0
    ELSE SrcRowSum(y0, x0, x1) + SrcRectSum(y0 + 1, y1, x0, x1)

\* C21: after build_sum_buffer with srcW >= 1, srcH >= 1 and srcRB >= srcW,
\* row 0 and column 0 of sum are 0, sum[y+1][x+1] is the sum of the source over
\* rows 0..y and columns 0..x read with stride srcRB, the sum of every source
\* rectangle is sum[y1][x1] + sum[y0][x0] - sum[y0][x1] - sum[y1][x0], and
\* none of this depends on the alignment of src.
SumIsPrefixSum ==
    (IsSumBuilt /\ args.srcW >= 1 /\ args.srcH >= 1) =>
        /\ fault = {}
        /\ \A y \in 0..args.srcH : \A x \in 0..args.srcW :
               SumAt(y, x) = SrcRectSum(0, y, 0, x)
        /\ \A y0 \in 0..args.srcH, x0 \in 0..args.srcW :
               \A y1 \in y0..args.srcH, x1 \in x0..args.srcW :
                   SumAt(y1, x1) + SumAt(y0, x0) - SumAt(y0, x1) - SumAt(y1, x0)
                       = SrcRectSum(y0, y1, x0, x1)

\* a padded source whose second row starts 4-aligned, so that its first four
\* pixels go through the loop unrolled by 4, and whose third row does not
SumIsPrefixSumWitness ==
    /\ IsSumBuilt
    /\ args.srcW = 5
    /\ args.srcH = 3
    /\ args.srcRB = 6
    /\ args.addr = 2
    /\ args.src[1] = 11
    /\ SumAt(0, 3) = 0
    /\ SumAt(2, 0) = 0
    /\ SumAt(1, 1) = 11
    /\ SumAt(1, 2) = 11 + 48
    /\ SumAt(3, 5) = SrcRectSum(0, 3, 0, 5)
    /\ SumAt(3, 5) - SumAt(3, 4) - SumAt(2, 5) + SumAt(2, 4) = args.src[17]
    /\ fault = {}

\* both kernels of a pair have run on the table
BothKernelsRan == pc = "done" /\ call \in {"kernel_clamped", "kernel_interp_clamped"}

\* C22: apply_kernel takes the kernel_clamped path exactly when 2*rx > sw;
\* otherwise its left, centre and right sections store, at every position of
\* the (sw + 2rx) x (sh + 2ry) output, the value the fully clamped loop of
\* kernel_clamped stores, and no index into sum leaves the table; the same
\* for apply_kernel_interp and kernel_interp_clamped.
KernelSectionsMatchClamped ==
    (BothKernelsRan /\ args.srcH >= 1) =>
        /\ calls[1].clamped = (2 * args.rx > args.srcW)
        /\ Len(pixels.dp) = (args.srcW + 2 * args.rx) * (args.srcH + 2 * args.ry)
        /\ pixels.dp = pixels.inner
        /\ \A k \in 1..Len(pixels.dp) : pixels.dp[k] # Uninit
        /\ "memory" \notin fault

\* 2*rx = 2 <= sw = 5: the left and right sections have two columns each, the
\* centre three; kernel_clamped was run outside its SkASSERT(2*rx > sw)
KernelSectionsMatchClampedWitness ==
    /\ BothKernelsRan
    /\ call = "kernel_clamped"
    /\ calls[1] = [fn |-> "apply_kernel", clamped |-> FALSE]
    /\ args.srcW = 5
    /\ args.srcH = 3
    /\ args.rx = 1
    /\ args.ry = 1
    /\ args.src[1] = 11
    /\ Len(pixels.dp) = 35
    /\ pixels.dp[1] = 1
    /\ pixels.dp[8 + 3] # pixels.dp[8 + 4]
    /\ pixels.dp = pixels.inner
    /\ fault = {"assert"}

\* every entry of the table was stored by the call
SumFilled == \A k \in 1..Len(pixels.sum) : pixels.sum[k] # Uninit

\* C30: build_sum_buffer writes exactly the (srcW + 1) * (srcH + 1) entries of
\* sum and reads exactly srcH rows of src, for all srcW >= 0 and srcH >= 0: it
\* fills a table of that size without a store past its end and without a load
\* outside the srcRB * srcH bytes of src.
BuildSumStaysInside == IsSumBuilt => (SumFilled /\ "memory" \notin fault)

\* a function that stores "(sum * scale [+ half]) >> 24" has returned
IsScalingCall ==
    /\ pc \in {"done", "applied", "appliedInterp"}
    /\ call \in {"boxBlur", "apply_kernel", "kernel_clamped", "apply_kernel_interp",
                 "kernel_interp_clamped"}

\* C28: for source bytes 0..255 and every kernel size >= 1, the uint32_t
\* expressions sum * scale + half of boxBlur, tmp * scale of apply_kernel and
\* kernel_clamped and outerSum * outerScale + innerSum * innerScale of
\* apply_kernel_interp (every outerWeight) never wrap modulo 2^32, so the
\* value shifted right by 24 is the quotient itself and at most 255.
NoFixedPointWrap ==
    IsScalingCall =>
        /\ "overflow" \notin fault
        /\ \A k \in 1..Len(pixels.dp) : pixels.dp[k] <= 255

\* a window of nineteen 255s: 4845 * floor(2^24 / 19) + 2^23 = 4286576903,
\* 8390393 short of 2^32
NoFixedPointWrapWitness ==
    /\ IsScalingCall
    /\ call = "boxBlur"
    /\ args.leftRadius = 9
    /\ args.rightRadius = 9
    /\ args.width = 20
    /\ \A k \in 1..Len(args.src) : args.src[k] = 255
    /\ BoxOut(0, 18) = 255
    /\ BoxOut(0, 0) = 13
    /\ fault = {}

WeightsComputed == pc = "done" /\ call = "weights"

-----------------------------------------------------------------------------
(* Source masks whose rows are padded *)

SrcIsPadded == SrcHasImage /\ args.src.fRowBytes > SrcW /\ SrcW > 0

\* the mask m with every byte between the end of a row and the start of the
\* next one replaced by v
Repadded(m, v) ==
    [m EXCEPT !.data = [k \in 1..Len(m.data) |->
                           IF (k - 1) % m.fRowBytes < Width(m.fBounds) THEN m.data[k]
                           ELSE v]]

\* the call made, repeated on the mask repadded with v
RepaddedCall(v) ==
    IF call = "BlurGroundTruth"
    THEN BlurGroundTruth(Dst0, Margin0, Repadded(args.src, v), args.radius, args.style,
                         args.marginPtr)
    ELSE Blur(Dst0, Margin0, Repadded(args.src, v), args.radius, args.style, args.quality,
              args.marginPtr, call = "BlurSeparable")

\* C23: for a source mask whose rowBytes exceeds its width, Blur, BlurSeparable
\* and BlurGroundTruth take pixel (x, y) from offset y * rowBytes + x of the
\* image: replacing the padding bytes changes nothing of what the call returns
\* or stores, and the padded copy BlurGroundTruth convolves holds in row y the
\* bytes y * rowBytes .. y * rowBytes + width - 1.
PaddingNeverRead ==
    (pc = "done" /\ call \in {"Blur", "BlurSeparable", "BlurGroundTruth"} /\ SrcIsPadded)
    => /\ \A v \in {0, 255} :
             /\ RepaddedCall(v).mem = pixels
             /\ RepaddedCall(v).ret = ret
             /\ RepaddedCall(v).dst = dst
       /\ (call = "BlurGroundTruth" /\ "padPixels" \in DOMAIN pixels)
          => pixels.padPixels = GroundTruthPadCopy_RowBytes(args.src,
                                                          GroundTruthWindowSize(args.radius) \div 2)

-----------------------------------------------------------------------------
(* What the solid and outer styles leave of the blur *)

\* pixel k of the enlarged image lies inside the source rectangle
InSource(k) ==
    /\ ((k - 1) % (SrcW + 2 * ExpectedPad)) - ExpectedPad \in 0..(SrcW - 1)
    /\ ((k - 1) \div (SrcW + 2 * ExpectedPad)) - ExpectedPad \in 0..(SrcH - 1)

\* the source pixel under pixel k of the enlarged image
SourceUnder(k) ==
    args.src.data[(((k - 1) \div (SrcW + 2 * ExpectedPad)) - ExpectedPad) * args.src.fRowBytes
                  + ((k - 1) % (SrcW + 2 * ExpectedPad)) - ExpectedPad + 1]

\* C24: for the solid and the outer style every pixel of Blur's output outside
\* the source rectangle, the band of passCount * rx pixels around it, is the
\* pixel of the normal-style output for the same source, radius and quality;
\* for the outer style so is every pixel inside the source rectangle whose
\* source pixel is 0.
StyleKeepsBlurOutsideSource ==
    (IsBlurCall /\ ret = TRUE /\ SrcHasImage
       /\ args.style \in {"kSolid_Style", "kOuter_Style"})
    => LET blurred == NormalBlur
       IN  /\ Len(pixels.dp) = Len(blurred)
           /\ \A k \in 1..Len(pixels.dp) :
                 (~InSource(k) \/ (args.style = "kOuter_Style" /\ SourceUnder(k) = 0))
                 => pixels.dp[k] = blurred[k]

\* an outer-style blur of the 3x2 mask by one pixel: the band is not blank, the
\* pixel over the source pixel (2, 0) = 0 is kept and not blank, the pixel over
\* the source pixel (1, 0) = 255 is cleared
StyleKeepsBlurOutsideSourceWitness ==
    /\ IsBlurCall /\ ret = TRUE /\ fault = {}
    /\ args.style = "kOuter_Style"
    /\ SrcW = 3 /\ SrcH = 2 /\ ExpectedPad = 1
    /\ pixels.dp[1] > 0
    /\ SourceUnder(9) = 0 /\ pixels.dp[9] = NormalBlur[9] /\ pixels.dp[9] > 0
    /\ SourceUnder(8) = 255 /\ pixels.dp[8] = 0 /\ NormalBlur[8] > 0

-----------------------------------------------------------------------------
(* The image a call hands back *)

\* C25: on every return from Blur, BlurSeparable and BlurGroundTruth, with true
\* or with false, dst->fImage is NULL (or was never written) or names a buffer
\* that is still allocated, and no buffer was released twice; this includes
\* the inner-style return taken when the source's image size is 0.
ReturnedImageIsLive ==
    (pc = "done" /\ call \in {"Blur", "BlurSeparable", "BlurGroundTruth"})
    => /\ dst.fImage \in {NULL, Dst0.fImage} \/ heap[dst.fImage] = "live"
       /\ \A n \in BufNames : heap[n] # "doublefree"

-----------------------------------------------------------------------------
(* A source mask without image *)

\* the source of the call with an image of opaque pixels
SrcWithPixels ==
    [args.src EXCEPT !.fImage = "src", !.data = Const(computeImageSize(args.src), 255)]

\* the call made, repeated on the source given pixels
BlurWithPixels ==
    Blur(Dst0, Margin0, SrcWithPixels, args.radius, args.style, args.quality,
         args.marginPtr, call = "BlurSeparable")

\* C26: when src.fImage is NULL (format A8, radius > 0) Blur returns true with
\* the margin and dst's bounds, rowBytes and format exactly as for a source
\* with pixels, with dst->fImage NULL and nothing allocated; for the inner
\* style the bounds and rowBytes returned are the source's, for the other
\* styles the source's bounds grown by the margin.
NullImageComputesBounds ==
    (IsBlurCall /\ args.src.fFormat = kA8_Format /\ RadiusPositive /\ ~SrcHasImage)
    => LET b == BlurWithPixels
       IN  /\ ret = TRUE /\ b.ret = TRUE
           /\ dst.fImage = NULL
           /\ heap = NoHeap /\ pixels = NoMem
           /\ margin = b.margin
           /\ dst.fBounds = b.dst.fBounds
           /\ dst.fRowBytes = b.dst.fRowBytes
           /\ dst.fFormat = b.dst.fFormat /\ dst.fFormat = kA8_Format
           /\ IF args.style = "kInner_Style"
              THEN dst.fBounds = args.src.fBounds /\ dst.fRowBytes = args.src.fRowBytes
              ELSE /\ dst.fBounds = Outset(args.src.fBounds, ExpectedPad)
                   /\ dst.fRowBytes = SrcW + 2 * ExpectedPad

\* an inner-style high-quality blur of the 4x4 mask without image by radius 4
NullImageComputesBoundsWitness ==
    /\ IsBlurCall /\ ~SrcHasImage /\ ret = TRUE
    /\ args.style = "kInner_Style" /\ HighInEffect /\ args.marginPtr
    /\ margin = <<9, 9>>
    /\ dst.fBounds = Bounds(0, 0, 4, 4) /\ dst.fRowBytes = 4
    /\ dst.fImage = NULL /\ heap = NoHeap
    /\ BlurWithPixels.dst.fImage = "inner"

-----------------------------------------------------------------------------
(* The passes of the separable path *)

\* a BlurSeparable call that ran its passes to the end
IsSeparableBlur == pc = "done" /\ call = "BlurSeparable" /\ ret = TRUE /\ SrcHasImage

\* passes per axis and radius of a pass, as the call chose them
PassCount == IF HighInEffect THEN 3 ELSE 1
PassRx == CeilPassRadius(HighInEffect)

\* pass i counts the pixels of the rows it is given as lineLen and the rows as
\* lines: the running width and height for an x pass, swapped for a y pass
PassGiven(i, axis, lineLen, lines) ==
    /\ calls[i].fn \in {"boxBlur", "boxBlurInterp"}
    /\ calls[i].axis = axis
    /\ calls[i].w = lineLen
    /\ calls[i].h = lines

\* a source pixel that is not 0 lies within reach of pixel (x, y) of the enlarged image
SourceInReach(x, y) ==
    \E j \in 0..(SrcH - 1), i \in 0..(SrcW - 1) :
       /\ args.src.data[j * args.src.fRowBytes + i + 1] # 0
       /\ x - ExpectedPad - i \in (-ExpectedPad)..ExpectedPad
       /\ y - ExpectedPad - j \in (-ExpectedPad)..ExpectedPad

\* C27: in the separable path, for both qualities and for integer and
\* fractional radii, no pass stores outside its destination buffer or loads a
\* byte the previous pass did not store; pass i in x is given the width
\* sw + 2 * rx * (i - 1), pass i in y the height sh + 2 * ry * (i - 1), every
\* pass grows its axis by 2 * rx, so that the last pass leaves the
\* (sw + 2 * passCount * rx) x (sh + 2 * passCount * ry) image of the dst
\* bounds, every byte stored, in row-major order: the pixel of column x and
\* row y is at y * width + x, and it is 0 unless a source pixel that is not 0
\* lies within passCount * rx of it in both axes.
SeparablePassesFit ==
    IsSeparableBlur
    => /\ "memory" \notin fault
       /\ Len(calls) = 2 * PassCount
       /\ \A i \in 1..PassCount :
             /\ PassGiven(i, "x", SrcW + 2 * PassRx * (i - 1), SrcH)
             /\ PassGiven(PassCount + i, "y", SrcH + 2 * PassRx * (i - 1),
                          SrcW + 2 * PassRx * PassCount)
             /\ calls[i].hi = PassRx /\ calls[PassCount + i].hi = PassRx
             /\ calls[i].lo = PassRx /\ calls[PassCount + i].lo = PassRx
       /\ Len(pixels.dp) = (SrcW + 2 * ExpectedPad) * (SrcH + 2 * ExpectedPad)
       /\ args.style # "kInner_Style"
          => /\ Width(dst.fBounds) = SrcW + 2 * PassCount * PassRx
             /\ Height(dst.fBounds) = SrcH + 2 * PassCount * PassRx
             /\ dst.fRowBytes = Width(dst.fBounds)
       /\ \A y \in 0..(SrcH + 2 * ExpectedPad - 1), x \in 0..(SrcW + 2 * ExpectedPad - 1) :
             /\ pixels.dp[y * (SrcW + 2 * ExpectedPad) + x + 1] \in 0..255
             /\ pixels.dp[y * (SrcW + 2 * ExpectedPad) + x + 1] # 0 => SourceInReach(x, y)

\* a high-quality blur of the 3x2 mask in six passes: the top right corner of
\* the 3 + 6 * rx wide image is within reach of the source pixel (2, 0) = 0
\* only, the pixel over the source pixel (1, 0) = 255 is not blank
SeparablePassesFitWitness ==
    /\ IsSeparableBlur /\ fault \subseteq {"assert"}
    /\ HighInEffect /\ Len(calls) = 6
    /\ SrcW = 3 /\ SrcH = 2
    /\ calls[6].w = SrcH + 4 * PassRx /\ calls[6].h = SrcW + 6 * PassRx
    /\ pixels.dp[SrcW + 6 * PassRx] = 0
    /\ pixels.dp[ExpectedPad * (SrcW + 2 * ExpectedPad) + ExpectedPad + 2] > 0

=============================================================================
